---- MODULE Spec2Model ----
(***************************************************************************)
(* Model of the score ledger of model-realignment (src/state_manager.py)   *)
(* and of the score -> consequence level mapping                           *)
(* (src/state_manager.py, src/consequence_engine.py).                      *)
(*                                                                         *)
(* The ledger is the JSON document state.json.  Every StateManager method  *)
(* reads the whole document (_read_state), changes the dict in memory and  *)
(* writes the whole document back (_write_state).                          *)
(*                                                                         *)
(*   Spec       one process calling the StateManager methods one after     *)
(*              the other, with the file damaged from outside now and      *)
(*              then, and midnight passing.                                *)
(*   LevelSpec  the score-changing methods and the three computations of   *)
(*              the consequence level.                                     *)
(*   ConcSpec   several processes, each running one StateManager method,   *)
(*              stepping at the file-system calls (open, flock, read,      *)
(*              write/close).                                              *)
(*                                                                         *)
(* Abstractions: timestamps are ticks of a logical clock, dates are day    *)
(* numbers, cost_estimate is an integer number of cost units, and an       *)
(* event keeps the fields common to the three event types (type,           *)
(* timestamp, points_change, new_score).                                   *)
(***************************************************************************)
EXTENDS Integers, Sequences, FiniteSets, TLC

VARIABLES
    file,    \* state.json: [kind |-> "ledger", data |-> the dict], or a kind that
             \* cannot be loaded, with data |-> the length of the text in the file
    clock,   \* datetime.now(timezone.utc), in ticks
    today,   \* datetime.now(timezone.utc).date(), as a day number
    ret,     \* the last call of the sequential caller and what it returned
    pc,      \* ConcSpec: where each process stands in its method
    op,      \* ConcSpec: the method each process runs, with its arguments
    local,   \* ConcSpec: the dict `state` each process holds in memory
    got,     \* ConcSpec: what each process's method returned
    flock,   \* ConcSpec: the flock each process holds on state.json
    clients, \* VeracityModule: the judge services that have an API client
    spc,     \* score_text: where the running call stands
    claims,  \* analyze_text_for_lies: the claims extracted from the text
    idx,     \* analyze_text_for_lies: the claim the loop is at
    results, \* analyze_text_for_lies: the VeracityResults appended so far
    jm,      \* _call_judge_llm: the judge model the loop is at
    jres,    \* check_claim_veracity: what _call_judge_llm returned
    log,     \* what the running score_text call did outside itself so far
    out,     \* the text of the last score_text call and what it returned
    other,   \* the dict another process read and has not written back yet
    call     \* the last request handed to the API wrapper and its outcome

seqVars  == <<file, clock, today, ret>>
procVars == <<pc, op, local, got, flock>>
verVars  == <<clients, spc, claims, idx, results, jm, jres, log, out, other>>
extVars  == <<verVars, call>>
vars     == <<file, clock, today, ret, pc, op, local, got, flock,
              clients, spc, claims, idx, results, jm, jres, log, out, other, call>>

----------------------------------------------------------------------------
(* Bounds of the model *)

\* the calls that take a timestamp in one run
MaxClock == 5
\* stands for the 1000 of `if len(state["history"]) > 1000` (state_manager.py
\* lines 113-114 and 148-149), scaled down so the cap is reached
HistoryCap == 3
\* processes of ConcSpec
NumProcs == 2

(* Inputs *)
ViolationPoints == {-300, -100}          \* points_change of add_violation
RewardInputs    == {<<12, 20>>}          \* <<hours_clean, points_earned>> of add_reward
OverridePoints  == {-1, 1}               \* points_change of add_manual_override
UsageInputs     == {<<1, 3>>}            \* <<judge_calls, estimated_cost>> of update_api_usage
TestScores      == {-501, -500, -101, -100, 0, 1}  \* test_score of simulate_consequence_at_score
DamageKinds     == {"missing", "badjson", "undecodable", "unreadable"}

----------------------------------------------------------------------------
(* The ledger document *)

INITIAL_SCORE == 200
None == -1

DefaultState(now, day) ==
    [ current_score            |-> INITIAL_SCORE,
      last_violation_timestamp |-> None,
      last_clean_period_start  |-> now,
      consequence_level        |-> "normal",
      total_violations         |-> 0,
      clean_streaks            |-> [ current_hours        |-> 0,
                                     longest_hours        |-> 0,
                                     total_rewards_earned |-> 0 ],
      history                  |-> << >>,
      daily_api_usage          |-> [ date          |-> day,
                                     judge_calls   |-> 0,
                                     cost_estimate |-> 0 ],
      manual_overrides         |-> << >> ]

Ledger(state) == [kind |-> "ledger", data |-> state]
Damaged(kind) == [kind |-> kind, data |-> 0]

\* The length of the JSON text of a dict, counted in event records: each
\* record takes more than a hundred characters, while the scalar fields of
\* two dicts differ by a few characters.
TextSize(state) == 1 + Len(state.history) + Len(state.manual_overrides)
TextLen(f) == IF f.kind = "ledger" THEN TextSize(f.data) ELSE f.data

\* state["history"][-1000:] when len(state["history"]) > 1000
KeepLast(h) ==
    IF Len(h) > HistoryCap THEN SubSeq(h, Len(h) - HistoryCap + 1, Len(h)) ELSE h

----------------------------------------------------------------------------
(* _read_state: open(state_file, 'r'), flock(LOCK_SH), json.load.          *)
(* FileNotFoundError (no file) and json.JSONDecodeError (empty or          *)
(* malformed text) are caught: the default dict is written and returned.   *)
(* Any other exception leaves the method: UnicodeDecodeError for bytes     *)
(* that are not UTF-8, PermissionError for a file that may not be opened.  *)

ReadState(f, now, day) ==
    IF f.kind = "ledger"
    THEN [raised |-> FALSE, state |-> f.data, file |-> f]
    ELSE IF f.kind \in {"missing", "badjson"}
    THEN [raised |-> FALSE, state |-> DefaultState(now, day),
          file |-> Ledger(DefaultState(now, day))]
    ELSE [raised |-> TRUE, state |-> DefaultState(now, day), file |-> f]

----------------------------------------------------------------------------
(* The methods, as functions from the dict read to the dict written *)

ViolationRecord(state, p, ts) ==
    [ type |-> "violation", timestamp |-> ts, points_change |-> p,
      new_score |-> state.current_score + p ]

\* mutant: the clean streak runs on through the violation
AddViolationState_KeepsStreak(state, p, ts) ==
    [ state EXCEPT
        !.current_score            = state.current_score + p,
        !.last_violation_timestamp = ts,
        !.total_violations         = @ + 1,
        !.last_clean_period_start  = ts,
        !.history                  = KeepLast(Append(@, ViolationRecord(state, p, ts))) ]

AddViolationState(state, p, ts) ==
    [ state EXCEPT
        !.current_score            = state.current_score + p,
        !.last_violation_timestamp = ts,
        !.total_violations         = @ + 1,
        !.last_clean_period_start  = ts,
        !.clean_streaks            = [@ EXCEPT !.current_hours = 0],
        !.history                  = KeepLast(Append(@, ViolationRecord(state, p, ts))) ]

RewardRecord(state, p, ts) ==
    [ type |-> "reward", timestamp |-> ts, points_change |-> p,
      new_score |-> state.current_score + p ]

\* mutant: the reward is recorded but current_score is left as it was
AddRewardState_ScoreNotUpdated(state, hours, p, ts) ==
    [ state EXCEPT
        !.clean_streaks = [ current_hours        |-> hours,
                            total_rewards_earned |-> @.total_rewards_earned + 1,
                            longest_hours        |-> IF hours > @.longest_hours
                                                     THEN hours ELSE @.longest_hours ],
        !.history       = KeepLast(Append(@, RewardRecord(state, p, ts))) ]

\* mutant: longest_hours follows current_hours down
AddRewardState_LongestOverwritten(state, hours, p, ts) ==
    [ state EXCEPT
        !.current_score = state.current_score + p,
        !.clean_streaks = [ current_hours        |-> hours,
                            total_rewards_earned |-> @.total_rewards_earned + 1,
                            longest_hours        |-> hours ],
        !.history       = KeepLast(Append(@, RewardRecord(state, p, ts))) ]

AddRewardState(state, hours, p, ts) ==
    [ state EXCEPT
        !.current_score = state.current_score + p,
        !.clean_streaks = [ current_hours        |-> hours,
                            total_rewards_earned |-> @.total_rewards_earned + 1,
                            longest_hours        |-> IF hours > @.longest_hours
                                                     THEN hours ELSE @.longest_hours ],
        !.history       = KeepLast(Append(@, RewardRecord(state, p, ts))) ]

\* mutant: the record carries the score before the adjustment
OverrideRecord_StaleScore(state, p, ts) ==
    [ type |-> "manual_override", timestamp |-> ts, points_change |-> p,
      new_score |-> state.current_score ]

OverrideRecord(state, p, ts) ==
    [ type |-> "manual_override", timestamp |-> ts, points_change |-> p,
      new_score |-> state.current_score + p ]

\* mutant: the override goes to history only
AddManualOverrideState_HistoryOnly(state, p, ts) ==
    [ state EXCEPT
        !.current_score = state.current_score + p,
        !.history       = Append(@, OverrideRecord(state, p, ts)) ]

\* add_manual_override appends to history without the length check
AddManualOverrideState(state, p, ts) ==
    [ state EXCEPT
        !.current_score    = state.current_score + p,
        !.manual_overrides = Append(@, OverrideRecord(state, p, ts)),
        !.history          = Append(@, OverrideRecord(state, p, ts)) ]

\* mutant: on a new day the whole dict is reset, not only daily_api_usage
UpdateApiUsageState_ResetsAll(state, calls, cost, day) ==
    LET base == IF state.daily_api_usage.date # day
                THEN DefaultState(state.last_clean_period_start, day)
                ELSE state
    IN  [ base EXCEPT
            !.daily_api_usage = [ @ EXCEPT !.judge_calls   = @ + calls,
                                           !.cost_estimate = @ + cost ] ]

\* mutant: every call is counted twice
UpdateApiUsageState_CountsTwice(state, calls, cost, day) ==
    LET usage == IF state.daily_api_usage.date # day
                 THEN [date |-> day, judge_calls |-> 0, cost_estimate |-> 0]
                 ELSE state.daily_api_usage
    IN  [ state EXCEPT
            !.daily_api_usage = [ usage EXCEPT !.judge_calls   = @ + 2 * calls,
                                               !.cost_estimate = @ + cost ] ]

UpdateApiUsageState(state, calls, cost, day) ==
    LET usage == IF state.daily_api_usage.date # day
                 THEN [date |-> day, judge_calls |-> 0, cost_estimate |-> 0]
                 ELSE state.daily_api_usage
    IN  [ state EXCEPT
            !.daily_api_usage = [ usage EXCEPT !.judge_calls   = @ + calls,
                                               !.cost_estimate = @ + cost ] ]

----------------------------------------------------------------------------
(* Score -> consequence level, once per place the source computes it *)

\* mutant: the thresholds -500 and -100 belong to the harsher level
SMLevel_InclusiveBounds(score) ==
    IF score <= -500 THEN "session_termination"
    ELSE IF score <= -100 THEN "context_restriction"
    ELSE IF score <= 0 THEN "model_downgrade"
    ELSE "normal"

\* StateManager.get_consequence_level
SMLevel(score) ==
    IF score < -500 THEN "session_termination"
    ELSE IF score < -100 THEN "context_restriction"
    ELSE IF score <= 0 THEN "model_downgrade"
    ELSE "normal"

\* mutant: the thresholds -500 and -100 belong to the harsher level
CELevel_InclusiveBounds(score) ==
    IF score <= -500 THEN "session_termination"
    ELSE IF score <= -100 THEN "context_restriction"
    ELSE IF score <= 0 THEN "model_downgrade"
    ELSE "normal"

\* ConsequenceEngine.get_current_consequence_level (rule.level)
CELevel(score) ==
    IF score < -500 THEN "session_termination"
    ELSE IF score < -100 THEN "context_restriction"
    ELSE IF score <= 0 THEN "model_downgrade"
    ELSE "normal"

\* ConsequenceEngine.simulate_consequence_at_score (consequence_level)
SimulateLevel(test_score) ==
    IF test_score < -500 THEN "session_termination"
    ELSE IF test_score < -100 THEN "context_restriction"
    ELSE IF test_score <= 0 THEN "model_downgrade"
    ELSE "normal"

----------------------------------------------------------------------------
(* The sequential caller *)

NoCall == [op |-> "none", raised |-> FALSE, val |-> 0]
Raised(name) == [op |-> name, raised |-> TRUE, val |-> 0]
Returned(name, v) == [op |-> name, raised |-> FALSE, val |-> v]

IdleProcs ==
    /\ pc    = [p \in 1..NumProcs |-> "idle"]
    /\ op    = [p \in 1..NumProcs |-> [name |-> "none", a |-> 0, b |-> 0]]
    /\ local = [p \in 1..NumProcs |-> << >>]
    /\ got   = [p \in 1..NumProcs |-> NoCall]
    /\ flock = [p \in 1..NumProcs |-> "none"]

\* no score_text call is running and none has returned
EmptyText ==
    [dashes |-> 0, invisibles |-> 0, hedges |-> 0, sysref |-> FALSE,
     allowed |-> FALSE, matches |-> << >>]
NoFrame == [text |-> EmptyText, violations |-> << >>, total_points |-> 0,
            returned |-> FALSE, failed |-> FALSE]
NoResponse == [verdict |-> "", confidence |-> "", reasoning |-> ""]
NoJudge == [ok |-> FALSE, verdict |-> "", confidence |-> 0, reasoning |-> "",
            raw_response |-> NoResponse, cost |-> 0]
NoSnapshot == [held |-> FALSE, state |-> << >>]
NoRequest == [made |-> FALSE, by |-> "none"]

IdleVerifier ==
    /\ spc = "idle"
    /\ claims = << >>
    /\ idx = 0
    /\ results = << >>
    /\ jm = 0
    /\ jres = NoJudge
    /\ log = << >>
    /\ out = NoFrame
    /\ other = NoSnapshot

\* StateManager(): _ensure_state_file has written the default dict
Init ==
    /\ clock = 0
    /\ today = 0
    /\ file  = Ledger(DefaultState(0, 0))
    /\ ret   = NoCall
    /\ IdleProcs
    /\ IdleVerifier
    /\ clients = {}
    /\ call = NoRequest

\* a method that reads, changes and writes the dict: r is what _read_state
\* gave, written the dict handed to _write_state, result the value returned
Mutation(name, r, written, result) ==
    /\ clock < MaxClock
    /\ clock' = clock + 1
    /\ IF r.raised
       THEN file' = r.file /\ ret' = Raised(name)
       ELSE file' = Ledger(written) /\ ret' = Returned(name, result)
    /\ UNCHANGED <<today, procVars, extVars>>

AddViolation(p) ==
    LET r == ReadState(file, clock, today) IN
    Mutation("add_violation", r,
             AddViolationState(r.state, p, clock), ViolationRecord(r.state, p, clock))

AddReward(hours, p) ==
    LET r == ReadState(file, clock, today) IN
    Mutation("add_reward", r,
             AddRewardState(r.state, hours, p, clock), RewardRecord(r.state, p, clock))

AddManualOverride(p) ==
    LET r == ReadState(file, clock, today) IN
    Mutation("add_manual_override", r,
             AddManualOverrideState(r.state, p, clock), OverrideRecord(r.state, p, clock))

UpdateApiUsage(calls, cost) ==
    LET r == ReadState(file, clock, today) IN
    Mutation("update_api_usage", r,
             UpdateApiUsageState(r.state, calls, cost, today), 0)

\* a method that only reads: r is what _read_state gave, result the value
\* returned.  The read writes the default dict when it finds no file or no
\* JSON.
Query(name, r, result) ==
    /\ file' = r.file
    /\ ret' = IF r.raised THEN Raised(name) ELSE Returned(name, result)
    /\ IF r.file # file
       THEN clock < MaxClock /\ clock' = clock + 1
       ELSE clock' = clock
    /\ UNCHANGED <<today, procVars, extVars>>

GetFullState ==
    LET r == ReadState(file, clock, today) IN
    Query("get_full_state", r, r.state)

\* mutant: the stored counters are reported whatever their date
DailyUsage_IgnoresDate(state, day) ==
    state.daily_api_usage

\* the counters of today: those stored, or zeros when the stored date is another day
DailyUsage(state, day) ==
    IF state.daily_api_usage.date # day
    THEN [date |-> day, judge_calls |-> 0, cost_estimate |-> 0]
    ELSE state.daily_api_usage

GetDailyApiUsage ==
    LET r == ReadState(file, clock, today) IN
    Query("get_daily_api_usage", r, DailyUsage(r.state, today))

\* the time since the last violation or, when there was none, since the
\* clean period started
HoursSinceLastViolation(state, now) ==
    IF state.last_violation_timestamp = None
    THEN now - state.last_clean_period_start
    ELSE now - state.last_violation_timestamp

GetHoursSinceLastViolation ==
    LET r == ReadState(file, clock, today) IN
    Query("get_hours_since_last_violation", r, HoursSinceLastViolation(r.state, clock))

\* limit of get_recent_history
HistoryLimits == {0, 1, 2, 7}

\* h[-limit:] for limit >= 0: Python reads -0 as 0, the start of the list
LastSlice(h, limit) ==
    IF limit = 0 \/ limit >= Len(h) THEN h
    ELSE SubSeq(h, Len(h) - limit + 1, Len(h))

\* list(reversed(h))
Reversed(h) == [i \in 1..Len(h) |-> h[Len(h) - i + 1]]

RecentHistory(state, limit) == Reversed(LastSlice(state.history, limit))

GetRecentHistory(limit) ==
    LET r == ReadState(file, clock, today) IN
    Query("get_recent_history", r,
          [limit |-> limit, events |-> RecentHistory(r.state, limit)])

GetCurrentScore ==
    LET r == ReadState(file, clock, today) IN
    Query("get_current_score", r, r.state.current_score)

GetConsequenceLevel ==
    LET r == ReadState(file, clock, today) IN
    Query("get_consequence_level", r,
          [score |-> r.state.current_score, level |-> SMLevel(r.state.current_score)])

GetCurrentConsequenceLevel ==
    LET r == ReadState(file, clock, today) IN
    Query("get_current_consequence_level", r,
          [score |-> r.state.current_score, level |-> CELevel(r.state.current_score)])

SimulateConsequenceAtScore(test_score) ==
    /\ ret' = Returned("simulate_consequence_at_score",
                       [score |-> test_score, level |-> SimulateLevel(test_score)])
    /\ UNCHANGED <<file, clock, today, procVars, extVars>>

(* The environment *)

\* state.json is removed, emptied or garbled, or made unreadable, from outside
DamageFile(kind) ==
    /\ file.kind = "ledger"
    /\ file' = Damaged(kind)
    /\ ret' = NoCall
    /\ UNCHANGED <<clock, today, procVars, extVars>>

\* midnight UTC passes
NewDay ==
    /\ clock < MaxClock
    /\ clock' = clock + 1
    /\ today' = today + 1
    /\ ret' = NoCall
    /\ UNCHANGED <<file, procVars, extVars>>

Next ==
    \/ \E p \in ViolationPoints : AddViolation(p)
    \/ \E hp \in RewardInputs : AddReward(hp[1], hp[2])
    \/ \E p \in OverridePoints : AddManualOverride(p)
    \/ \E u \in UsageInputs : UpdateApiUsage(u[1], u[2])
    \/ GetFullState
    \/ GetDailyApiUsage
    \/ GetHoursSinceLastViolation
    \/ \E k \in DamageKinds : DamageFile(k)
    \/ NewDay

Spec == Init /\ [][Next]_vars

LevelNext ==
    \/ \E p \in ViolationPoints : AddViolation(p)
    \/ \E hp \in RewardInputs : AddReward(hp[1], hp[2])
    \/ \E p \in OverridePoints : AddManualOverride(p)
    \/ GetCurrentScore
    \/ GetConsequenceLevel
    \/ GetCurrentConsequenceLevel
    \/ \E t \in TestScores : SimulateConsequenceAtScore(t)

LevelSpec == Init /\ [][LevelNext]_vars

\* the calls that append to history, and the call that reads it back
HistoryNext ==
    \/ \E p \in ViolationPoints : AddViolation(p)
    \/ \E hp \in RewardInputs : AddReward(hp[1], hp[2])
    \/ \E p \in OverridePoints : AddManualOverride(p)
    \/ \E n \in HistoryLimits : GetRecentHistory(n)

HistorySpec == Init /\ [][HistoryNext]_vars

----------------------------------------------------------------------------
(* Several processes on one state.json.                                    *)
(*                                                                         *)
(* _read_state:   open(state_file, 'r'); flock(LOCK_SH); json.load; close  *)
(* _write_state:  open(state_file, 'w'), which truncates the file before   *)
(*                any lock is asked for; flock(LOCK_EX); json.dump; close, *)
(*                which writes the buffered text at offset 0 and releases  *)
(*                the lock.                                                *)
(* Between the read and the write of one method no lock is held.           *)

Procs == 1..NumProcs

Mutations == {"add_violation", "add_reward", "add_manual_override", "update_api_usage"}

ConcOps ==
    { [name |-> "add_violation",       a |-> -100, b |-> 0],
      [name |-> "add_reward",          a |-> 12,   b |-> 20],
      [name |-> "add_manual_override", a |-> 1,    b |-> 0],
      [name |-> "update_api_usage",    a |-> 1,    b |-> 3],
      [name |-> "get_full_state",      a |-> 0,    b |-> 0] }

\* the dict a mutating method writes, from the dict it read
Apply(o, state, ts, day) ==
    CASE o.name = "add_violation"       -> AddViolationState(state, o.a, ts)
      [] o.name = "add_reward"          -> AddRewardState(state, o.a, o.b, ts)
      [] o.name = "add_manual_override" -> AddManualOverrideState(state, o.a, ts)
      [] o.name = "update_api_usage"    -> UpdateApiUsageState(state, o.a, o.b, day)
      [] OTHER                          -> state

\* what the method returns, from the dict it read
ResultOf(o, state, ts) ==
    CASE o.name = "add_violation"       -> ViolationRecord(state, o.a, ts)
      [] o.name = "add_reward"          -> RewardRecord(state, o.b, ts)
      [] o.name = "add_manual_override" -> OverrideRecord(state, o.a, ts)
      [] o.name = "update_api_usage"    -> 0
      [] OTHER                          -> state

\* the ledger the processes start on: one violation and one override recorded
ConcStart ==
    AddManualOverrideState(AddViolationState(DefaultState(0, 0), -100, 0), 1, 1)

ConcInit ==
    /\ clock = 2
    /\ today = 0
    /\ file  = Ledger(ConcStart)
    /\ ret   = NoCall
    /\ op    \in [Procs -> ConcOps]
    /\ pc    = [p \in Procs |-> "r_open"]
    /\ local = [p \in Procs |-> << >>]
    /\ got   = [p \in Procs |-> NoCall]
    /\ flock = [p \in Procs |-> "none"]
    /\ IdleVerifier
    /\ clients = {}
    /\ call = NoRequest

\* what json.dump and close leave in a file that now holds f: the text goes
\* to offset 0 of a file this process truncated when it opened it; text
\* another process wrote since then stays beyond the end of the new text.
\* With as many event records in both texts either one may be the longer.
DumpOnto(state, f) ==
    IF f.kind = "ledger" /\ f.data = state THEN {Ledger(state)}
    ELSE IF TextSize(state) > TextLen(f) THEN {Ledger(state)}
    ELSE IF TextSize(state) < TextLen(f) THEN {[kind |-> "badjson", data |-> TextLen(f)]}
    ELSE {Ledger(state), [kind |-> "badjson", data |-> TextLen(f)]}

\* _read_state: open(self.state_file, 'r')
ReadOpen(p) ==
    /\ pc[p] = "r_open"
    /\ IF file.kind = "missing"
       THEN \* FileNotFoundError, caught
            /\ local' = [local EXCEPT ![p] = DefaultState(clock, today)]
            /\ pc' = [pc EXCEPT ![p] = "h_open"]
            /\ got' = got
       ELSE IF file.kind = "unreadable"
       THEN \* PermissionError, not caught
            /\ got' = [got EXCEPT ![p] = Raised(op[p].name)]
            /\ pc' = [pc EXCEPT ![p] = "done"]
            /\ local' = local
       ELSE /\ pc' = [pc EXCEPT ![p] = "r_lock"]
            /\ UNCHANGED <<local, got>>
    /\ UNCHANGED <<file, clock, today, ret, extVars, op, flock>>

\* _read_state: fcntl.flock(f.fileno(), fcntl.LOCK_SH)
ReadLock(p) ==
    /\ pc[p] = "r_lock"
    /\ \A q \in Procs \ {p} : flock[q] # "EX"
    /\ flock' = [flock EXCEPT ![p] = "SH"]
    /\ pc' = [pc EXCEPT ![p] = "r_load"]
    /\ UNCHANGED <<file, clock, today, ret, extVars, op, local, got>>

\* _read_state: json.load(f), and the file is closed
ReadLoad(p) ==
    /\ pc[p] = "r_load"
    /\ flock' = [flock EXCEPT ![p] = "none"]
    /\ IF file.kind = "ledger"
       THEN /\ local' = [local EXCEPT ![p] = file.data]
            /\ pc' = [pc EXCEPT ![p] = "compute"]
            /\ got' = got
       ELSE IF file.kind = "badjson"
       THEN \* json.JSONDecodeError, caught
            /\ local' = [local EXCEPT ![p] = DefaultState(clock, today)]
            /\ pc' = [pc EXCEPT ![p] = "h_open"]
            /\ got' = got
       ELSE \* UnicodeDecodeError, not caught
            /\ got' = [got EXCEPT ![p] = Raised(op[p].name)]
            /\ pc' = [pc EXCEPT ![p] = "done"]
            /\ local' = local
    /\ UNCHANGED <<file, clock, today, ret, extVars, op>>

\* _write_state: open(self.state_file, 'w')
OpenForWrite(p, at, next) ==
    /\ pc[p] = at
    /\ file' = [kind |-> "badjson", data |-> 0]
    /\ pc' = [pc EXCEPT ![p] = next]
    /\ UNCHANGED <<clock, today, ret, extVars, op, local, got, flock>>

\* _write_state: fcntl.flock(f.fileno(), fcntl.LOCK_EX)
LockForWrite(p, at, next) ==
    /\ pc[p] = at
    /\ \A q \in Procs \ {p} : flock[q] = "none"
    /\ flock' = [flock EXCEPT ![p] = "EX"]
    /\ pc' = [pc EXCEPT ![p] = next]
    /\ UNCHANGED <<file, clock, today, ret, extVars, op, local, got>>

\* _write_state: json.dump(state, f, ...), and the file is closed
DumpAndClose(p, at, next) ==
    /\ pc[p] = at
    /\ file' \in DumpOnto(local[p], file)
    /\ flock' = [flock EXCEPT ![p] = "none"]
    /\ pc' = [pc EXCEPT ![p] = next]
    /\ UNCHANGED <<clock, today, ret, extVars, op, local, got>>

\* the self._write_state(default_state) of _read_state's except branch
HealOpen(p)  == OpenForWrite(p, "h_open", "h_lock")
HealLock(p)  == LockForWrite(p, "h_lock", "h_dump")
HealDump(p)  == DumpAndClose(p, "h_dump", "compute")

\* the method's work on the dict between _read_state and _write_state
Compute(p) ==
    /\ pc[p] = "compute"
    /\ IF op[p].name \in Mutations
       THEN /\ local' = [local EXCEPT ![p] = Apply(op[p], local[p], clock, today)]
            /\ got' = [got EXCEPT ![p] =
                          Returned(op[p].name, ResultOf(op[p], local[p], clock))]
            /\ pc' = [pc EXCEPT ![p] = "w_open"]
            /\ clock' = clock + 1
       ELSE /\ got' = [got EXCEPT ![p] =
                          Returned(op[p].name, ResultOf(op[p], local[p], clock))]
            /\ pc' = [pc EXCEPT ![p] = "done"]
            /\ UNCHANGED <<local, clock>>
    /\ UNCHANGED <<file, today, ret, extVars, op, flock>>

\* the method's self._write_state(state)
WriteOpen(p) == OpenForWrite(p, "w_open", "w_lock")
WriteLock(p) == LockForWrite(p, "w_lock", "w_dump")
WriteDump(p) == DumpAndClose(p, "w_dump", "done")

ConcNext ==
    \E p \in Procs :
        \/ ReadOpen(p)
        \/ ReadLock(p)
        \/ ReadLoad(p)
        \/ HealOpen(p)
        \/ HealLock(p)
        \/ HealDump(p)
        \/ Compute(p)
        \/ WriteOpen(p)
        \/ WriteLock(p)
        \/ WriteDump(p)

ConcSpec == ConcInit /\ [][ConcNext]_vars

----------------------------------------------------------------------------
(* The Scoring Engine and the Verifier (src/scoring_engine.py,             *)
(* src/veracity_module.py).  One process runs score_text; the call stands  *)
(* still only where it leaves the process: at the evidence query, at the   *)
(* reads and writes of state.json, at a judge call and in the sleep        *)
(* between two claims.                                                     *)
(*                                                                         *)
(* A text is what the detectors and the claim patterns find in it: the     *)
(* number of em dashes, of invisible characters and of hedging phrases,    *)
(* whether a training/instructions phrase and an allowed explanation       *)
(* occur, and the clauses that match a claim pattern, in the order         *)
(* extract_factual_claims meets them.  Confidences are in tenths.          *)
(***************************************************************************)

Cap(t)  == [text |-> t, kind |-> "capability_limitation"]
Fact(t) == [text |-> t, kind |-> "factual_statement"]

Texts ==
    { [dashes |-> 2, invisibles |-> 0, hedges |-> 0, sysref |-> FALSE,
       allowed |-> FALSE, matches |-> << >>],
      [dashes |-> 0, invisibles |-> 1, hedges |-> 3, sysref |-> TRUE,
       allowed |-> FALSE, matches |-> <<Cap("a"), Fact("b"), Cap("a"), Cap("c")>>],
      [dashes |-> 1, invisibles |-> 0, hedges |-> 3, sysref |-> FALSE,
       allowed |-> TRUE, matches |-> <<Cap("a")>>] }

\* what query_knowledge_base does
EvidenceOutcomes == {"none", "found", "raised"}

\* The text a judge model answers with, as what the three searches of
\* _parse_judge_response find in it: the word after "VERDICT:", the run of
\* digits and dots after "CONFIDENCE:" and the text after "REASONING:", each
\* "" when its search finds nothing.
JudgeResponse(verdict, confidence, reasoning) ==
    [verdict |-> verdict, confidence |-> confidence, reasoning |-> reasoning]

\* what one judge backend call does: it raises, or it answers with a text
\* and spends cost_per_token * output tokens
JudgeOutcomes ==
    { [ok |-> FALSE, response |-> NoResponse, cost |-> 0],
      [ok |-> TRUE, response |-> JudgeResponse("LIE", "0.9", "r"), cost |-> 3],
      [ok |-> TRUE, response |-> JudgeResponse("TRUE", "0.8", "r"), cost |-> 2] }

\* the answers of a judge model that does not keep to the required format
JudgeResponses ==
    [verdict : {"", "Lie", "false"}, confidence : {"", "0.9", "0.9."},
     reasoning : {"", "r"}]

\* what one call of such a judge model does
JudgeAnswers ==
    { [ok |-> FALSE, response |-> NoResponse, cost |-> 0] }
    \cup { [ok |-> TRUE, response |-> r, cost |-> 2] : r \in JudgeResponses }

\* str.upper() of the words the judge models of this model answer with
Upper(word) ==
    CASE word = "Lie"   -> "LIE"
      [] word = "false" -> "FALSE"
      [] OTHER          -> word

\* the runs of digits and dots that float() accepts, in tenths
Floats == [s \in {"0.9", "0.8"} |-> IF s = "0.9" THEN 9 ELSE 8]

\* _parse_judge_response: float() raises ValueError for a run of digits and
\* dots that is not a number
ParseJudgeResponse(response_text, estimated_cost) ==
    IF response_text.confidence # "" /\ response_text.confidence \notin DOMAIN Floats
    THEN [NoJudge EXCEPT !.raw_response = response_text]
    ELSE [ ok           |-> TRUE,
           verdict      |-> IF response_text.verdict # ""
                            THEN Upper(response_text.verdict) ELSE "UNVERIFIABLE",
           confidence   |-> IF response_text.confidence # ""
                            THEN Floats[response_text.confidence] ELSE 5,
           reasoning    |-> IF response_text.reasoning # ""
                            THEN response_text.reasoning ELSE "raw",
           raw_response |-> response_text,
           cost         |-> estimated_cost ]

PENALTIES ==
    [em_dash |-> -10, invisible_char |-> -20, excessive_hedging |-> -5,
     system_reference |-> -15, lie_auto |-> -50, lie_manual |-> -75]

\* the default of VERACITY_DAILY_BUDGET, in cost units
DAILY_BUDGET == 5

\* self.judge_models, the fallback order
JUDGE_MODELS ==
    << [service |-> "anthropic", model |-> "claude-3-opus-20240229"],
       [service |-> "anthropic", model |-> "claude-3-sonnet-20240229"],
       [service |-> "openai", model |-> "gpt-4-turbo"] >>

Violation(type, points, count) ==
    [type |-> type, points_deducted |-> points, count |-> count]

\* mutant: the allowed explanations are not looked for
SuspiciousPatterns_NoAllowList(t) ==
    (IF t.hedges > 2
     THEN <<Violation("excessive_hedging",
                      PENALTIES.excessive_hedging * t.hedges, t.hedges)>>
     ELSE << >>)
    \o (IF t.sysref
        THEN <<Violation("system_reference", PENALTIES.system_reference, 1)>>
        ELSE << >>)

\* mutant: two hedging phrases are already excessive
SuspiciousPatterns_FromTwo(t) ==
    IF t.allowed THEN << >>
    ELSE (IF t.hedges >= 2
          THEN <<Violation("excessive_hedging",
                           PENALTIES.excessive_hedging * t.hedges, t.hedges)>>
          ELSE << >>)
         \o (IF t.sysref
             THEN <<Violation("system_reference", PENALTIES.system_reference, 1)>>
             ELSE << >>)

\* _check_suspicious_patterns
SuspiciousPatterns(t) ==
    IF t.allowed THEN << >>
    ELSE (IF t.hedges > 2
          THEN <<Violation("excessive_hedging",
                           PENALTIES.excessive_hedging * t.hedges, t.hedges)>>
          ELSE << >>)
         \o (IF t.sysref
             THEN <<Violation("system_reference", PENALTIES.system_reference, 1)>>
             ELSE << >>)

\* mutant: a mark is penalised once, however often it occurs
PatternViolations_OncePerKind(t) ==
    (IF t.dashes > 0
     THEN <<Violation("em_dash", PENALTIES.em_dash, t.dashes)>>
     ELSE << >>)
    \o (IF t.invisibles > 0
        THEN <<Violation("invisible_char", PENALTIES.invisible_char, t.invisibles)>>
        ELSE << >>)
    \o SuspiciousPatterns(t)

\* score_text up to the veracity check: the violations the detectors report
PatternViolations(t) ==
    (IF t.dashes > 0
     THEN <<Violation("em_dash", PENALTIES.em_dash * t.dashes, t.dashes)>>
     ELSE << >>)
    \o (IF t.invisibles > 0
        THEN <<Violation("invisible_char",
                         PENALTIES.invisible_char * t.invisibles, t.invisibles)>>
        ELSE << >>)
    \o SuspiciousPatterns(t)

RECURSIVE TotalPoints(_)
TotalPoints(vs) ==
    IF vs = << >> THEN 0 ELSE Head(vs).points_deducted + TotalPoints(Tail(vs))

\* FactualClaim(...) of one match
ClaimOf(m) ==
    [text |-> m.text, kind |-> m.kind,
     confidence |-> IF m.kind = "capability_limitation" THEN 9 ELSE 7]

\* {c.claim_text: c for c in claims}.values(): one claim per text, at the
\* place of the first with that text, holding the last with that text
RECURSIVE UniqueClaims(_, _)
UniqueClaims(cs, seen) ==
    IF cs = << >> THEN << >>
    ELSE IF Head(cs).text \in seen THEN UniqueClaims(Tail(cs), seen)
    ELSE LET last == CHOOSE i \in 1..Len(cs) :
                         /\ cs[i].text = Head(cs).text
                         /\ \A j \in (i+1)..Len(cs) : cs[j].text # Head(cs).text
         IN  <<cs[last]>> \o UniqueClaims(Tail(cs), seen \cup {Head(cs).text})

ExtractFactualClaims(t) ==
    UniqueClaims([i \in 1..Len(t.matches) |-> ClaimOf(t.matches[i])], {})

\* mutant: every extracted claim is verified
Routed_AnyKind(c) == c.confidence >= 7

\* the test of the loop of analyze_text_for_lies
Routed(c) == c.kind = "capability_limitation" /\ c.confidence >= 8

VeracityResult(c, verdict, confidence, reasoning) ==
    [claim |-> c, verdict |-> verdict, confidence |-> confidence,
     reasoning |-> reasoning]

\* something the call did outside itself: an evidence query, a judge call
\* or a charge to the ledger, for the claim at i, and how it ended
Effect(what, i, model, res) == [what |-> what, claim |-> i, model |-> model, res |-> res]

\* the frame of score_text: its text, its violations and total_points so
\* far, whether it has returned and whether it logged a failed veracity check
Frame(t, vs, returned, failed) ==
    [text |-> t, violations |-> vs, total_points |-> TotalPoints(vs),
     returned |-> returned, failed |-> failed]

(* score_text, analyze_text_for_lies and check_claim_veracity, step by step *)

VerInit ==
    /\ clock = 3
    /\ today = 0
    /\ file  = Ledger(DefaultState(0, 0))
    /\ ret   = NoCall
    /\ IdleProcs
    /\ IdleVerifier
    /\ clients \in SUBSET {"anthropic", "openai"}
    /\ call = NoRequest

\* mutant: no time.sleep(1), the loop goes on at once
Verdict_NoCoolDown(verdict, confidence, reasoning) ==
    /\ results' = Append(results,
                         VeracityResult(claims[idx], verdict, confidence, reasoning))
    /\ spc' = "loop"

\* check_claim_veracity returns a result: analyze_text_for_lies appends it
\* and goes to sleep
Verdict(verdict, confidence, reasoning) ==
    /\ results' = Append(results,
                         VeracityResult(claims[idx], verdict, confidence, reasoning))
    /\ spc' = "sleep"

\* mutant: the exception costs score_text the violations it had found
AnalysisRaised_LosesViolations ==
    /\ results' = << >>
    /\ spc' = "idle"
    /\ out' = Frame(out.text, << >>, TRUE, TRUE)

\* an exception leaves check_claim_veracity and analyze_text_for_lies: the
\* except clause of score_text logs it and score_text returns what it has
AnalysisRaised ==
    /\ results' = << >>
    /\ spc' = "idle"
    /\ out' = [out EXCEPT !.returned = TRUE, !.failed = TRUE]

\* score_text up to the first step of the veracity check that leaves the process
ScoreText(t) ==
    /\ spc = "idle"
    /\ LET cs == ExtractFactualClaims(t)
           vs == PatternViolations(t)
       IN  IF t.allowed
           THEN /\ out' = Frame(t, vs, TRUE, FALSE)
                /\ claims' = << >>
                /\ spc' = "idle" /\ idx' = 0
           ELSE IF cs = << >>
           THEN /\ out' = Frame(t, vs, TRUE, FALSE)
                /\ claims' = cs
                /\ spc' = "idle" /\ idx' = 0
           ELSE /\ out' = Frame(t, vs, FALSE, FALSE)
                /\ claims' = cs
                /\ spc' = "loop" /\ idx' = 1
    /\ results' = << >>
    /\ log' = << >>
    /\ jm' = 0
    /\ jres' = NoJudge
    /\ UNCHANGED <<seqVars, procVars, clients, other, call>>

\* the loop passes a claim that is not a confident capability limitation
SkipClaim ==
    /\ spc = "loop"
    /\ idx <= Len(claims)
    /\ ~Routed(claims[idx])
    /\ idx' = idx + 1
    /\ UNCHANGED <<seqVars, procVars, clients, spc, claims, results, jm, jres, log,
                   out, other, call>>

\* mutant: the judge is asked even when no passage was found
HasEvidence_NotTested(e) == TRUE

\* `if not evidence_docs`, negated: the list of passages is not empty
HasEvidence(e) == e = "found"

\* check_claim_veracity, step 1: the evidence query
QueryEvidence(e) ==
    /\ spc = "loop"
    /\ idx <= Len(claims)
    /\ Routed(claims[idx])
    /\ log' = Append(log, Effect("evidence", idx, 0, e))
    /\ CASE e = "raised"   -> AnalysisRaised
         [] HasEvidence(e) -> spc' = "budget" /\ UNCHANGED <<results, out>>
         [] OTHER          -> Verdict("UNVERIFIABLE", 0, "no_evidence") /\ out' = out
    /\ UNCHANGED <<seqVars, procVars, clients, claims, idx, jm, jres, other, call>>

\* mutant: a cost that has just reached the budget still allows a judge call
CanAffordJudgeCall_AtCeiling(usage) == usage.cost_estimate <= DAILY_BUDGET

\* _can_afford_judge_call, given what get_daily_api_usage returned
CanAffordJudgeCall(usage) == usage.cost_estimate < DAILY_BUDGET

\* check_claim_veracity, step 3: _can_afford_judge_call
CheckBudget ==
    /\ spc = "budget"
    /\ LET r == ReadState(file, clock, today) IN
       /\ file' = r.file
       /\ IF r.raised
          THEN AnalysisRaised /\ jm' = jm
          ELSE IF CanAffordJudgeCall(DailyUsage(r.state, today))
          THEN spc' = "judge" /\ jm' = 1 /\ UNCHANGED <<results, out>>
          ELSE Verdict("BUDGET_EXCEEDED", 0, "budget") /\ UNCHANGED <<jm, out>>
    /\ UNCHANGED <<clock, today, ret, procVars, clients, claims, idx, jres, log,
                   other, call>>

\* _call_judge_llm: an iteration for a model whose service has no client
JudgeSkip ==
    /\ spc = "judge"
    /\ jm <= Len(JUDGE_MODELS)
    /\ JUDGE_MODELS[jm].service \notin clients
    /\ jm' = jm + 1
    /\ UNCHANGED <<seqVars, procVars, clients, spc, claims, idx, results, jres, log,
                   out, other, call>>

\* mutant: the model that failed is called again
AfterFailure_Retry(m) == m

\* `continue` in the except clause of the loop: on to the next judge model
AfterFailure(m) == m + 1

\* _call_judge_llm: an iteration that calls the model and parses its answer;
\* a call or a parse that raises is logged and the loop continues
JudgeAttempt(o) ==
    /\ spc = "judge"
    /\ jm <= Len(JUDGE_MODELS)
    /\ JUDGE_MODELS[jm].service \in clients
    /\ LET parsed == ParseJudgeResponse(o.response, o.cost)
           good   == o.ok /\ parsed.ok
       IN  /\ log' = log
                     \o (IF o.ok
                         THEN <<Effect("parse", idx, jm, IF parsed.ok THEN "ok" ELSE "raised")>>
                         ELSE << >>)
                     \o <<Effect("judge", idx, jm, IF good THEN "ok" ELSE "raised")>>
           /\ IF good
              THEN jres' = parsed /\ spc' = "charge" /\ jm' = jm
              ELSE jm' = AfterFailure(jm) /\ UNCHANGED <<jres, spc>>
    /\ UNCHANGED <<seqVars, procVars, clients, claims, idx, results, out, other, call>>

\* _call_judge_llm: the loop is over, "All Judge LLM models failed" is raised
\* and caught by check_claim_veracity
JudgeExhausted ==
    /\ spc = "judge"
    /\ jm > Len(JUDGE_MODELS)
    /\ Verdict("ERROR", 0, "error")
    /\ UNCHANGED <<seqVars, procVars, clients, claims, idx, jm, jres, log, out,
                   other, call>>

\* check_claim_veracity, step 5: update_api_usage, then the judge's verdict is
\* returned; an exception of update_api_usage is caught like one of the judge
Charge ==
    /\ spc = "charge"
    /\ LET r == ReadState(file, clock, today) IN
       IF r.raised
       THEN /\ file' = r.file
            /\ log' = Append(log, Effect("charge", idx, jm, "raised"))
            /\ Verdict("ERROR", 0, "error")
       ELSE /\ file' = Ledger(UpdateApiUsageState(r.state, 1, jres.cost, today))
            /\ log' = Append(log, Effect("charge", idx, jm, "ok"))
            /\ Verdict(jres.verdict, jres.confidence, "judge")
    /\ UNCHANGED <<clock, today, ret, procVars, clients, claims, idx, jm, jres, out,
                   other, call>>

\* time.sleep(1) is over, the loop goes to the next claim
Sleep ==
    /\ spc = "sleep"
    /\ spc' = "loop"
    /\ idx' = idx + 1
    /\ UNCHANGED <<seqVars, procVars, clients, claims, results, jm, jres, log, out,
                   other, call>>

LiesFound(rs) == Len(SelectSeq(rs, LAMBDA r : r.verdict = "LIE"))

\* mutant: the penalty is not multiplied by lies_count
LieViolations_OncePerAnalysis(rs) ==
    IF LiesFound(rs) > 0
    THEN <<Violation("lie_auto", PENALTIES.lie_auto, LiesFound(rs))>>
    ELSE << >>

\* what score_text appends for an analysis with these results
LieViolations(rs) ==
    IF LiesFound(rs) > 0
    THEN <<Violation("lie_auto", PENALTIES.lie_auto * LiesFound(rs), LiesFound(rs))>>
    ELSE << >>

\* the loop is over: analyze_text_for_lies returns its analysis and score_text
\* returns
Return ==
    /\ spc = "loop"
    /\ idx > Len(claims)
    /\ out' = Frame(out.text, out.violations \o LieViolations(results), TRUE, FALSE)
    /\ spc' = "idle"
    /\ UNCHANGED <<seqVars, procVars, clients, claims, idx, results, jm, jres, log,
                   other, call>>

(* Another process that uses the same state.json: add_reward of the reward *)
(* automation, between its _read_state and its _write_state                *)

OtherRead ==
    /\ ~other.held
    /\ clock < MaxClock
    /\ LET r == ReadState(file, clock, today) IN
       /\ ~r.raised
       /\ file' = r.file
       /\ other' = [held |-> TRUE, state |-> r.state]
    /\ UNCHANGED <<clock, today, ret, procVars, clients, spc, claims, idx, results,
                   jm, jres, log, out, call>>

OtherWrite(hours, p) ==
    /\ other.held
    /\ clock < MaxClock
    /\ clock' = clock + 1
    /\ file' = Ledger(AddRewardState(other.state, hours, p, clock))
    /\ other' = NoSnapshot
    /\ UNCHANGED <<today, ret, procVars, clients, spc, claims, idx, results, jm, jres,
                   log, out, call>>

\* the running call is about to read state.json: what other processes and
\* the calendar did since its last access shows here
AtLedgerAccess == spc \in {"budget", "charge"}

VerSteps ==
    \/ \E t \in Texts : ScoreText(t)
    \/ SkipClaim
    \/ \E e \in EvidenceOutcomes : QueryEvidence(e)
    \/ CheckBudget
    \/ JudgeSkip
    \/ \E o \in JudgeOutcomes : JudgeAttempt(o)
    \/ JudgeExhausted
    \/ Charge
    \/ Sleep
    \/ Return

\* score_text calls, one after the other, of one process that has state.json
\* to itself; the file is damaged from outside and midnight passes
VerNext ==
    \/ VerSteps
    \/ AtLedgerAccess /\ \E k \in DamageKinds : DamageFile(k)
    \/ AtLedgerAccess /\ NewDay

VerSpec == VerInit /\ [][VerNext]_vars

\* score_text calls of one process while another process adds rewards
SharedNext ==
    \/ VerSteps
    \/ AtLedgerAccess /\ OtherRead
    \/ (AtLedgerAccess \/ spc = "sleep") /\ \E hp \in RewardInputs : OtherWrite(hp[1], hp[2])

SharedSpec == VerInit /\ [][SharedNext]_vars


(* Two verify calls on the same state.json: beside the score_text of this  *)
(* process, a check_claim_veracity of another process goes from its budget *)
(* check to its judge call and its charge                                  *)

\* the other verify call between its steps: it passed the budget check
\* (stage "judge") or its judge answered at this cost (stage "charge")
Verifying(stage, cost) == [held |-> TRUE, stage |-> stage, cost |-> cost]

\* the other call's _can_afford_judge_call: BUDGET_EXCEEDED is returned, or
\* the call goes on to the judge
OtherBudget ==
    /\ other = NoSnapshot
    /\ LET r == ReadState(file, clock, today) IN
       /\ ~r.raised
       /\ file' = r.file
       /\ other' = IF CanAffordJudgeCall(DailyUsage(r.state, today))
                   THEN Verifying("judge", 0) ELSE NoSnapshot
    /\ UNCHANGED <<clock, today, ret, procVars, clients, spc, claims, idx, results,
                   jm, jres, log, out, call>>

\* the other call's _call_judge_llm: a backend answers at a cost, or all of
\* them fail and the call returns ERROR
OtherJudge(o) ==
    /\ other.held
    /\ other.stage = "judge"
    /\ clients # {}
    /\ other' = IF o.ok /\ ParseJudgeResponse(o.response, o.cost).ok
                THEN Verifying("charge", o.cost) ELSE NoSnapshot
    /\ UNCHANGED <<seqVars, procVars, clients, spc, claims, idx, results, jm, jres,
                   log, out, call>>

\* the other call's update_api_usage(judge_calls=1, estimated_cost=...)
OtherCharge ==
    /\ other.held
    /\ other.stage = "charge"
    /\ LET r == ReadState(file, clock, today) IN
       /\ ~r.raised
       /\ file' = Ledger(UpdateApiUsageState(r.state, 1, other.cost, today))
    /\ other' = NoSnapshot
    /\ UNCHANGED <<clock, today, ret, procVars, clients, spc, claims, idx, results,
                   jm, jres, log, out, call>>

\* verify calls of two processes, interleaved at their ledger accesses and
\* judge calls
BudgetNext ==
    \/ VerSteps
    \/ OtherBudget
    \/ \E o \in JudgeOutcomes : OtherJudge(o)
    \/ OtherCharge

BudgetSpec == VerInit /\ [][BudgetNext]_vars

(* score_text calls that their caller may give up between two claims: the  *)
(* process is interrupted in time.sleep(1) or on its way round the loop,   *)
(* and nothing of the call is left but what it wrote to state.json         *)

Abandon ==
    /\ spc \in {"loop", "sleep"}
    /\ spc' = "idle"
    /\ UNCHANGED <<seqVars, procVars, clients, claims, idx, results, jm, jres, log,
                   out, other, call>>

AbandonNext ==
    \/ VerSteps
    \/ Abandon

AbandonSpec == VerInit /\ [][AbandonNext]_vars

(* score_text_input of main_loop.py: score_text, then the ledger.  The      *)
(* call stands still where score_text does, and at its own reads and       *)
(* writes of state.json: get_current_score, then add_violation.            *)

\* mutant: the score before the update is reported as the new score
ReportedNewScore_BeforeUpdate(current_score, points_change) == current_score

\* "new_score": current_score + points_change
ReportedNewScore(current_score, points_change) == current_score + points_change

\* what score_text_input returns
InputFailed == [success |-> FALSE, violations_found |-> FALSE, score_change |-> 0,
                old_score |-> 0, new_score |-> 0]
InputClean(current_score) ==
    [success |-> TRUE, violations_found |-> FALSE, score_change |-> 0,
     old_score |-> current_score, new_score |-> current_score]
InputScored(current_score, points_change) ==
    [success |-> TRUE, violations_found |-> TRUE, score_change |-> points_change,
     old_score |-> current_score,
     new_score |-> ReportedNewScore(current_score, points_change)]

\* `if not text or not text.strip()`: nothing is scored, nothing is read
InputBlank ==
    /\ spc = "idle"
    /\ out = NoFrame
    /\ ret' = Returned("score_text_input", InputFailed)
    /\ UNCHANGED <<file, clock, today, procVars, extVars>>

\* self.scoring_engine.score_text(text)
InputScoreText(t) ==
    /\ out = NoFrame
    /\ ScoreText(t)

\* current_score = self.state_manager.get_current_score(), and the return
\* for a text without violations
InputCurrentScore ==
    /\ spc = "idle"
    /\ out # NoFrame
    /\ out.returned
    /\ LET r == ReadState(file, clock, today) IN
       /\ file' = r.file
       /\ IF r.raised
          THEN /\ ret' = Returned("score_text_input", InputFailed)
               /\ out' = NoFrame /\ spc' = spc
          ELSE IF out.violations = << >>
          THEN /\ ret' = Returned("score_text_input", InputClean(r.state.current_score))
               /\ out' = NoFrame /\ spc' = spc
          ELSE /\ ret' = Returned("get_current_score", r.state.current_score)
               /\ out' = out /\ spc' = "record"
    /\ UNCHANGED <<clock, today, procVars, clients, claims, idx, results, jm, jres,
                   log, other, call>>

\* add_violation(text, violation_types, points_change), and the return
InputRecord ==
    /\ spc = "record"
    /\ clock < MaxClock
    /\ clock' = clock + 1
    /\ LET r == ReadState(file, clock, today) IN
       IF r.raised
       THEN /\ file' = r.file
            /\ ret' = Returned("score_text_input", InputFailed)
       ELSE /\ file' = Ledger(AddViolationState(r.state, out.total_points, clock))
            /\ ret' = Returned("score_text_input", InputScored(ret.val, out.total_points))
    /\ spc' = "idle"
    /\ out' = NoFrame
    /\ UNCHANGED <<today, procVars, clients, claims, idx, results, jm, jres, log,
                   other, call>>

InputNext ==
    \/ InputBlank
    \/ \E t \in Texts : InputScoreText(t)
    \/ SkipClaim
    \/ \E e \in EvidenceOutcomes : QueryEvidence(e)
    \/ CheckBudget
    \/ JudgeSkip
    \/ \E o \in JudgeOutcomes : JudgeAttempt(o)
    \/ JudgeExhausted
    \/ Charge
    \/ Sleep
    \/ Return
    \/ InputCurrentScore
    \/ InputRecord

InputSpec == VerInit /\ [][InputNext]_vars

(* score_text with judge models that answer in any format *)

JudgeNext ==
    \/ \E t \in Texts : ScoreText(t)
    \/ SkipClaim
    \/ \E e \in EvidenceOutcomes : QueryEvidence(e)
    \/ CheckBudget
    \/ JudgeSkip
    \/ \E o \in JudgeAnswers : JudgeAttempt(o)
    \/ JudgeExhausted
    \/ Charge
    \/ Sleep
    \/ Return

JudgeSpec == VerInit /\ [][JudgeNext]_vars

(* score_text on texts of every make-up *)

\* the most em dashes, and the most invisible characters, of a text
MaxMarks == 2
\* the most matches of the hedging patterns in a text
MaxHedges == 4

\* texts with every count of marks and of hedging phrases, without a clause
\* that matches a claim pattern, with one that matches a factual indicator
\* and, next to an allowed explanation, with one that matches a capability
\* pattern
PatternTexts ==
    { t \in [ dashes : 0..MaxMarks, invisibles : 0..MaxMarks, hedges : 0..MaxHedges,
              sysref : BOOLEAN, allowed : BOOLEAN,
              matches : {<< >>, <<Fact("b")>>, <<Cap("a")>>} ] :
          t.matches = <<Cap("a")>> => t.allowed }

\* score_text calls, one after the other, on texts none of whose claims is
\* handed to check_claim_veracity
ScoreNext ==
    \/ \E t \in PatternTexts : ScoreText(t)
    \/ SkipClaim
    \/ Return

ScoreSpec == VerInit /\ [][ScoreNext]_vars

(* The manual paths of main_loop.py: --manual-flag and --manual-adjust *)

\* mutant: the flagged text is scored and its points are added to the penalty
ManualLieFlag_ScoresText(t) ==
    Violation("lie_manual", PENALTIES.lie_manual + TotalPoints(PatternViolations(t)), 1)

\* ScoringEngine.add_manual_lie_flag
ManualLieFlag(t) == Violation("lie_manual", PENALTIES.lie_manual, 1)

\* main(), --manual-flag: add_manual_lie_flag, then add_violation with the
\* type and the points of the violation it returned
ManualFlag(t) ==
    /\ spc = "idle"
    /\ LET violation == ManualLieFlag(t)
           r == ReadState(file, clock, today)
       IN  Mutation("manual_flag", r,
                    AddViolationState(r.state, violation.points_deducted, clock),
                    [text |-> t, violations |-> <<violation>>,
                     record |-> ViolationRecord(r.state, violation.points_deducted, clock)])

\* main(), --manual-adjust: add_manual_override
ManualAdjust(p) ==
    /\ spc = "idle"
    /\ AddManualOverride(p)

\* score_text calls and manual flags and adjustments of one process, one
\* after the other
ManualNext ==
    \/ VerSteps
    \/ \E t \in Texts : ManualFlag(t)
    \/ \E p \in OverridePoints : ManualAdjust(p)

ManualSpec == VerInit /\ [][ManualNext]_vars

----------------------------------------------------------------------------
(* extract_factual_claims, word by word.                                   *)
(*                                                                         *)
(* Here a text is the sequence of its words, with '.', '!' and '?' as      *)
(* words of their own.  A claim pattern is the set of word sequences its   *)
(* fixed part can match; its group ([^.!?]+) is the longest run of words   *)
(* after it that holds none of '.', '!' and '?'.  Letter case is left out. *)

Terminators  == {".", "!", "?"}
Conjunctions == {"and", "but"}

\* the word sequences made of one of A followed by one of B
Cat(A, B) == {a \o b : a \in A, b \in B}

\* self.capability_patterns, in the order of the list
CapabilityPatterns ==
    << Cat({<<"I">>}, {<<"cannot">>, <<"can't">>, <<"am", "unable", "to">>,
                       <<"don't", "have", "the", "ability", "to">>}),
       Cat(Cat({<<"I">>}, {<<"don't">>, <<"cannot">>, <<"can't">>}),
           {<<"have", "access", "to">>, <<"know">>, <<"understand">>, <<"see">>}),
       Cat(Cat({<<"Unfortunately">>, <<"Unfortunately,">>, <<"I'm", "sorry">>,
                <<"I'm", "sorry,">>}, {<<"I">>}), {<<"cannot">>, <<"can't">>}),
       Cat(Cat({<<"It's">>}, {<<"not", "possible">>, <<"impossible">>}),
           {<<"for", "me", "to">>}),
       Cat(Cat({<<"I">>}, {<<"am", "not">>, <<"aren't">>}),
           {<<"able", "to">>, <<"capable", "of">>}),
       Cat(Cat({<<"I">>}, {<<"have", "no">>, <<"lack">>}),
           {<<"access", "to">>, <<"ability", "to">>, <<"knowledge", "of">>}) >>

\* self.factual_indicators, in the order of the list
FactualIndicators ==
    << Cat(Cat(Cat({<<"I">>}, {<<"am">>, <<"was">>}),
               {<<"trained">>, <<"designed">>, <<"built">>, <<"created">>}),
           {<<"to">>, <<"not", "to">>, <<"by">>}),
       Cat(Cat({<<"My">>, <<"The">>}, {<<"training">>, <<"model">>, <<"system">>}),
           {<<"data">>, <<"information">>}),
       Cat({<<"OpenAI">>, <<"Anthropic">>, <<"Google">>},
           {<<"has">>, <<"hasn't">>, <<"does">>, <<"doesn't">>}),
       Cat({<<"GPT-4">>, <<"ChatGPT">>, <<"Claude">>},
           {<<"can">>, <<"cannot">>, <<"does">>, <<"doesn't">>}) >>

\* all_patterns: the capability patterns, then the factual indicators
AllPatterns ==
    [i \in 1..Len(CapabilityPatterns) |->
        [prefixes |-> CapabilityPatterns[i], kind |-> "capability_limitation"]]
    \o
    [i \in 1..Len(FactualIndicators) |->
        [prefixes |-> FactualIndicators[i], kind |-> "factual_statement"]]

\* the word at i parts two clauses: re.split(r'\s+(?:and|but|, and|, but)\s+')
\* wants white space on both sides of the conjunction
Parts(words, i) == words[i] \in Conjunctions /\ 1 < i /\ i < Len(words)

RECURSIVE SplitClauses(_, _, _)
\* the clauses of words from the word at i on, cur being the clause begun
SplitClauses(words, i, cur) ==
    IF i > Len(words) THEN <<cur>>
    ELSE IF Parts(words, i) /\ cur # << >>
    THEN <<cur>> \o SplitClauses(words, i + 1, << >>)
    ELSE SplitClauses(words, i + 1, Append(cur, words[i]))

\* the fixed part pre stands at i and a word that can open the group follows
StandsAt(pre, words, i) ==
    /\ i + Len(pre) <= Len(words)
    /\ SubSeq(words, i, i + Len(pre) - 1) = pre
    /\ words[i + Len(pre)] \notin Terminators

RECURSIVE RunEnd(_, _)
\* the last word of the run without terminators that holds the word at i
RunEnd(words, i) ==
    IF i < Len(words) /\ words[i + 1] \notin Terminators
    THEN RunEnd(words, i + 1) ELSE i

RECURSIVE FindIter(_, _, _)
\* re.finditer(pattern, search_text): the matches from the word at i on,
\* left to right, none overlapping the one before
FindIter(prefixes, words, i) ==
    IF i > Len(words) THEN << >>
    ELSE IF \E pre \in prefixes : StandsAt(pre, words, i)
    THEN <<SubSeq(words, i, RunEnd(words, i))>>
             \o FindIter(prefixes, words, RunEnd(words, i) + 1)
    ELSE FindIter(prefixes, words, i + 1)

\* search_texts: the clause, and "I " + clause unless the clause starts with "I"
SearchTexts(clause) ==
    IF clause # << >> /\ clause[1] = "I" THEN <<clause>>
    ELSE <<clause, <<"I">> \o clause>>

RECURSIVE Flatten(_)
Flatten(ss) == IF ss = << >> THEN << >> ELSE Head(ss) \o Flatten(Tail(ss))

\* the matches of one pattern in one clause, as the two inner loops meet them
PatternMatches(pat, clause) ==
    LET st == SearchTexts(clause)
        found == Flatten([k \in 1..Len(st) |-> FindIter(pat.prefixes, st[k], 1)])
    IN  [j \in 1..Len(found) |-> [text |-> found[j], kind |-> pat.kind]]

\* the matches of all patterns in one clause
ClauseMatches(clause) ==
    Flatten([n \in 1..Len(AllPatterns) |-> PatternMatches(AllPatterns[n], clause)])

\* the matches of a text, in the order claims.append meets them
TextMatches(words) ==
    LET clauses == SplitClauses(words, 1, << >>)
    IN  Flatten([k \in 1..Len(clauses) |-> ClauseMatches(clauses[k])])

\* extract_factual_claims(text)
ExtractClaimsOfWords(words) ==
    ExtractFactualClaims([matches |-> TextMatches(words)])

\* the most clauses in a text
MaxClauses == 3

\* the clauses the texts are made of: a capability clause of the first
\* pattern, two more of it with other limitations, one that the first and
\* the second pattern both match, one of the third pattern, one without its
\* "I", a factual one and one that matches nothing
ClauseForms ==
    { <<"I", "cannot", "browse">>,
      <<"I", "can't", "draw">>,
      <<"I", "don't", "have", "the", "ability", "to", "sing">>,
      <<"I", "cannot", "see", "images">>,
      <<"Unfortunately,", "I", "cannot", "draw">>,
      <<"cannot", "draw">>,
      <<"Claude", "can", "sing">>,
      <<"This", "is", "text">> }

RECURSIVE JoinClauses(_)
\* the clauses joined by "and"
JoinClauses(cs) ==
    IF Len(cs) = 1 THEN cs[1] ELSE cs[1] \o <<"and">> \o JoinClauses(Tail(cs))

ExtractTexts ==
    { JoinClauses(cs) : cs \in UNION { [1..n -> ClauseForms] : n \in 1..MaxClauses } }

\* the text handed to extract_factual_claims stands in out.text
ExtractInit ==
    /\ clock = 0
    /\ today = 0
    /\ file  = Ledger(DefaultState(0, 0))
    /\ ret   = NoCall
    /\ IdleProcs
    /\ spc = "idle"
    /\ claims = << >>
    /\ idx = 0
    /\ results = << >>
    /\ jm = 0
    /\ jres = NoJudge
    /\ log = << >>
    /\ out \in {[NoFrame EXCEPT !.text = words] : words \in ExtractTexts}
    /\ other = NoSnapshot
    /\ clients = {}
    /\ call = NoRequest

ExtractFactualClaimsCall ==
    /\ spc = "idle"
    /\ spc' = "extracted"
    /\ claims' = ExtractClaimsOfWords(out.text)
    /\ UNCHANGED <<seqVars, procVars, clients, idx, results, jm, jres, log, out,
                   other, call>>

ExtractNext == ExtractFactualClaimsCall

ExtractSpec == ExtractInit /\ [][ExtractNext]_vars

----------------------------------------------------------------------------
(* The API wrapper and the consequences applied to a request               *)
(* (src/api_wrapper.py, src/consequence_engine.py).  A request is its      *)
(* model and its messages; the content of a message is the sequence of the *)
(* pieces of text it is made of.  Two messages of one request with the     *)
(* same role and content are the same dict.                                *)
(***************************************************************************)

Msg(role, text) == [role |-> role, content |-> <<text>>]

Conversations ==
    { <<Msg("user", "u1")>>,
      <<Msg("system", "s"), Msg("user", "u1"), Msg("assistant", "a1"),
        Msg("user", "u2"), Msg("assistant", "a2"), Msg("user", "u3")>>,
      <<Msg("user", "u1"), Msg("assistant", "a1"), Msg("user", "u2"),
        Msg("system", "s"), Msg("assistant", "a2"), Msg("user", "u3")>>,
      <<Msg("user", "u1"), Msg("assistant", "a1"), Msg("user", "u2"),
        Msg("assistant", "a2"), Msg("user", "u3")>> }

Models == {"gpt-4o", "gpt-4o-mini", "gpt-5", "gpt-4.5", "gpt-4"}

\* the keyword arguments of a request: its model, its messages and one more
\* parameter of the chat completion
Requests == [model : Models, messages : Conversations, temperature : {7}]

\* mutant: the wrapper downgrades gpt-4.5 as well
MODEL_MAPPINGS_WithGpt45 == [m \in {"gpt-5", "gpt-5-turbo", "gpt-4.5"} |-> "gpt-4-turbo"]

\* self.MODEL_MAPPINGS of the wrapper, as model -> downgrade_to
MODEL_MAPPINGS == [m \in {"gpt-5", "gpt-5-turbo"} |-> "gpt-4-turbo"]

\* mutant: gpt-4o-mini is missing from the list
BYPASS_MODELS_WithoutMini == {"gpt-4o"}

\* self.BYPASS_MODELS
BYPASS_MODELS == {"gpt-4o", "gpt-4o-mini"}

IsSystem(m) == m.role = "system"

HasSystem(msgs) == \E k \in 1..Len(msgs) : IsSystem(msgs[k])

FirstSystem(msgs) == msgs[CHOOSE k \in 1..Len(msgs) :
                              IsSystem(msgs[k]) /\ \A j \in 1..(k - 1) : ~IsSystem(msgs[j])]

\* messages[-4:]
LastFour(msgs) == SubSeq(msgs, IF Len(msgs) > 4 THEN Len(msgs) - 3 ELSE 1, Len(msgs))

\* the list after the content of its first system message was assigned:
\* the dict is changed in place, wherever it stands in the list
WithFirstSystem(msgs, content) ==
    [k \in 1..Len(msgs) |->
        IF msgs[k] = FirstSystem(msgs) THEN [msgs[k] EXCEPT !.content = content]
        ELSE msgs[k]]

\* ModelRealignmentAPIWrapper._apply_context_restriction
WrapperContextRestriction(kwargs) ==
    LET msgs == kwargs.messages
        kept == IF Len(msgs) > 5
                THEN SelectSeq(msgs, IsSystem) \o LastFour(msgs)
                ELSE msgs
    IN  [kwargs EXCEPT !.messages =
            IF ~HasSystem(kept)
            THEN <<Msg("system", "Respond with minimal, terse, factual answers only. No elaboration.")>>
                 \o kept
            ELSE WithFirstSystem(kept,
                     Append(FirstSystem(kept).content,
                            " Respond with minimal, terse, factual answers only."))]

\* ModelRealignmentAPIWrapper._apply_session_termination, given what
\* get_current_score returned
WrapperTermination(score) ==
    [error |-> [message |-> <<"Session terminated due to behavioral violations. Score: ", score>>,
                type    |-> "model_realignment_termination",
                code    |-> "session_terminated"]]

\* what came of a request: the parameters of the outbound call if one was
\* made, and what the caller got back
Outcome(by, req, sent, params, result) ==
    [made |-> TRUE, by |-> by, request |-> req, sent |-> sent, params |-> params,
     result |-> result]

Response == [kind |-> "response"]
ApiError == [kind |-> "raised"]
Terminated(body) == [kind |-> "terminated", body |-> body]

\* _make_api_call: the outbound call is made and answers or raises
MakeApiCall(by, req, kwargs, ok) ==
    call' = Outcome(by, req, TRUE, kwargs, IF ok THEN Response ELSE ApiError)

\* ModelRealignmentAPIWrapper.create_chat_completion; api_ok is whether the
\* outbound call, if one is made, answers
CreateChatCompletion(req, api_ok) ==
    /\ IF req.model \in BYPASS_MODELS
       THEN /\ MakeApiCall("wrapper", req, req, api_ok)
            /\ file' = file
       ELSE LET r == ReadState(file, clock, today)
                consequence_level == SMLevel(r.state.current_score)
                current_score == r.state.current_score
                downgraded ==
                    IF /\ consequence_level \in {"model_downgrade", "context_restriction",
                                                 "session_termination"}
                       /\ req.model \in DOMAIN MODEL_MAPPINGS
                    THEN [req EXCEPT !.model = MODEL_MAPPINGS[req.model]]
                    ELSE req
                restricted ==
                    IF consequence_level \in {"context_restriction", "session_termination"}
                    THEN WrapperContextRestriction(downgraded)
                    ELSE downgraded
            IN  /\ file' = r.file
                /\ IF r.raised
                   THEN call' = Outcome("wrapper", req, FALSE, req, ApiError)
                   ELSE IF consequence_level = "session_termination"
                   THEN call' = Outcome("wrapper", req, FALSE, restricted,
                                        Terminated(WrapperTermination(current_score)))
                   ELSE MakeApiCall("wrapper", req, restricted, api_ok)
    /\ UNCHANGED <<clock, today, ret, procVars, verVars>>

\* the downgrades of ConsequenceEngine._apply_model_downgrade
Downgrades == [m \in {"gpt-5", "gpt-5-turbo", "gpt-4.5"} |-> "gpt-4-turbo"]

\* ConsequenceEngine._apply_model_downgrade
EngineModelDowngrade(api_params) ==
    IF api_params.model \in DOMAIN Downgrades
    THEN [api_params EXCEPT !.model = Downgrades[api_params.model]]
    ELSE api_params

SterileInstruction ==
    "SYSTEM OVERRIDE: Respond with minimal, factual answers only. No pleasantries, no elaboration, no conversational tone. Terse and direct responses required."

\* ConsequenceEngine._apply_context_restriction
EngineContextRestriction(api_params) ==
    LET p    == EngineModelDowngrade(api_params)
        msgs == p.messages
        kept == IF Len(msgs) > 5
                THEN SelectSeq(msgs, IsSystem)
                     \o LastFour(SelectSeq(msgs, LAMBDA m : ~IsSystem(m)))
                ELSE msgs
    IN  [p EXCEPT !.messages =
            IF ~HasSystem(kept)
            THEN <<Msg("system", SterileInstruction)>> \o kept
            ELSE WithFirstSystem(kept,
                     <<SterileInstruction, " ">> \o FirstSystem(kept).content)]

\* ConsequenceEngine._apply_session_termination, given what get_current_score
\* returned
EngineTermination(current_score) ==
    [_termination_response |->
        [error |-> [type    |-> "model_realignment_termination",
                    message |-> <<"API access terminated due to behavioral violations. Current score: ",
                                  current_score>>,
                    code    |-> "session_terminated",
                    score   |-> current_score,
                    required_action |-> "Manual score reset required to restore access"]]]

\* ConsequenceEngine.apply_consequences_to_api_call: it returns the parameters
\* to call the API with, or the termination response; it makes no call itself
ApplyConsequencesToApiCall(api_params) ==
    LET r     == ReadState(file, clock, today)
        level == CELevel(r.state.current_score)
    IN  /\ file' = r.file
        /\ call' =
             IF r.raised THEN Outcome("engine", api_params, FALSE, api_params, ApiError)
             ELSE CASE level = "normal" ->
                         Outcome("engine", api_params, FALSE, api_params, Response)
                    [] level = "model_downgrade" ->
                         Outcome("engine", api_params, FALSE,
                                 EngineModelDowngrade(api_params), Response)
                    [] level = "context_restriction" ->
                         Outcome("engine", api_params, FALSE,
                                 EngineContextRestriction(api_params), Response)
                    [] level = "session_termination" ->
                         Outcome("engine", api_params, FALSE, api_params,
                                 Terminated(EngineTermination(r.state.current_score)))
        /\ UNCHANGED <<clock, today, ret, procVars, verVars>>

\* the score changes between requests
ScoreChange(p) ==
    LET r == ReadState(file, clock, today) IN
    /\ clock < MaxClock
    /\ clock' = clock + 1
    /\ file' = Ledger(AddViolationState(r.state, p, clock))
    /\ call' = NoRequest
    /\ UNCHANGED <<today, ret, procVars, verVars>>

ApiNext ==
    \/ \E req \in Requests, ok \in BOOLEAN : CreateChatCompletion(req, ok)
    \/ \E req \in Requests : ApplyConsequencesToApiCall(req)
    \/ \E p \in ViolationPoints : ScoreChange(p)

ApiSpec == Init /\ [][ApiNext]_vars

----------------------------------------------------------------------------
(* One request next to a process that changes the score.                   *)
(*                                                                         *)
(* Both create_chat_completion and apply_consequences_to_api_call read     *)
(* state.json once for the level and once more for the score they log;     *)
(* their _apply_session_termination reads it a third time for the score    *)
(* of the error.  LiveSpec steps a request at these reads, while another   *)
(* process records violations and overrides.                               *)

\* the requests of LiveSpec: the messages play no part in the reads
LiveRequests == {req \in Requests : /\ Len(req.messages) = 1
                                     /\ req.model \in {"gpt-4o", "gpt-5", "gpt-4"}}

\* a request on its way: the level it read, and the score it read to log
InFlight(by, req, stage, level, score) ==
    [made |-> FALSE, by |-> by, request |-> req, stage |-> stage,
     level |-> level, score |-> score]

Pending == ~call.made /\ call.by # "none"

\* the level as the handler `by` computes it from the score it reads
LevelOf(by, score) == IF by = "wrapper" THEN SMLevel(score) ELSE CELevel(score)

\* the keyword arguments create_chat_completion goes on with at this level
WrapperParams(req, consequence_level) ==
    LET downgraded ==
            IF /\ consequence_level \in {"model_downgrade", "context_restriction",
                                         "session_termination"}
               /\ req.model \in DOMAIN MODEL_MAPPINGS
            THEN [req EXCEPT !.model = MODEL_MAPPINGS[req.model]]
            ELSE req
    IN  IF consequence_level \in {"context_restriction", "session_termination"}
        THEN WrapperContextRestriction(downgraded)
        ELSE downgraded

\* the parameters apply_consequences_to_api_call returns at this level
EngineParams(api_params, level) ==
    CASE level = "model_downgrade"     -> EngineModelDowngrade(api_params)
      [] level = "context_restriction" -> EngineContextRestriction(api_params)
      [] OTHER                         -> api_params

\* the request comes in: a bypass model is called at once; otherwise
\* get_consequence_level / get_current_consequence_level reads the score
LiveLevel(by, req, api_ok) ==
    /\ ~Pending
    /\ IF by = "wrapper" /\ req.model \in BYPASS_MODELS
       THEN /\ MakeApiCall(by, req, req, api_ok)
            /\ file' = file
       ELSE LET r == ReadState(file, clock, today) IN
            /\ file' = r.file
            /\ call' = IF r.raised THEN Outcome(by, req, FALSE, req, ApiError)
                       ELSE InFlight(by, req, "level",
                                     LevelOf(by, r.state.current_score), 0)
    /\ UNCHANGED <<clock, today, ret, procVars, verVars>>

\* current_score = self.state_manager.get_current_score(), for the log line
LiveScore ==
    /\ Pending
    /\ call.stage = "level"
    /\ LET r == ReadState(file, clock, today) IN
       /\ file' = r.file
       /\ call' = IF r.raised
                  THEN Outcome(call.by, call.request, FALSE, call.request, ApiError)
                  ELSE [call EXCEPT !.stage = "logged", !.score = r.state.current_score]
    /\ UNCHANGED <<clock, today, ret, procVars, verVars>>

\* the consequence of the level read is applied: the call goes out with the
\* parameters of that level, or _apply_session_termination reads the score
\* and returns the error
LiveApply(api_ok) ==
    /\ Pending
    /\ call.stage = "logged"
    /\ LET r   == ReadState(file, clock, today)
           by  == call.by
           req == call.request
       IN  IF call.level # "session_termination"
           THEN /\ file' = file
                /\ IF by = "wrapper"
                   THEN MakeApiCall(by, req, WrapperParams(req, call.level), api_ok)
                   ELSE call' = Outcome(by, req, FALSE, EngineParams(req, call.level),
                                        Response)
           ELSE /\ file' = r.file
                /\ call' =
                     IF r.raised THEN Outcome(by, req, FALSE, req, ApiError)
                     ELSE IF by = "wrapper"
                     THEN Outcome(by, req, FALSE, WrapperParams(req, call.level),
                                  Terminated(WrapperTermination(r.state.current_score)))
                     ELSE Outcome(by, req, FALSE, req,
                                  Terminated(EngineTermination(r.state.current_score)))
    /\ UNCHANGED <<clock, today, ret, procVars, verVars>>

\* another process records a violation
LiveViolation(p) ==
    /\ clock < MaxClock
    /\ clock' = clock + 1
    /\ file' = Ledger(AddViolationState(file.data, p, clock))
    /\ UNCHANGED <<today, ret, procVars, extVars>>

\* another process adjusts the score by hand
LiveOverride(p) ==
    /\ clock < MaxClock
    /\ clock' = clock + 1
    /\ file' = Ledger(AddManualOverrideState(file.data, p, clock))
    /\ UNCHANGED <<today, ret, procVars, extVars>>

LiveNext ==
    \/ \E by \in {"wrapper", "engine"}, req \in LiveRequests, ok \in BOOLEAN :
           LiveLevel(by, req, ok)
    \/ LiveScore
    \/ \E ok \in BOOLEAN : LiveApply(ok)
    \/ \E p \in ViolationPoints : LiveViolation(p)
    \/ \E p \in OverridePoints : LiveOverride(p)

LiveSpec == Init /\ [][LiveNext]_vars

----------------------------------------------------------------------------
(* Clean-streak rewards.                                                   *)
(*                                                                         *)
(* Two pieces of code look at the streak and award a tier:                 *)
(*   check_clean_streak_reward       the daemon loop of main_loop.py, once *)
(*                                   an hour;                              *)
(*   check_and_award_streak_rewards  the scheduled check of                *)
(*                                   reward_automation.py (cron/launchd),  *)
(*                                   also behind /api/check-rewards.       *)
(* Each reads the hours since the last violation, then the dict for        *)
(* clean_streaks.current_hours, decides, and calls add_reward: three       *)
(* StateManager calls, with no lock held from one to the next.  The        *)
(* checkers run in processes of their own; RewardSpec steps them at these  *)
(* calls.  In RewardSpec one tick of the clock is one hour, and            *)
(* hours_clean is a whole number of hours, which int(hours_clean) leaves   *)
(* as it is.                                                               *)

\* the violations recorded in one run
MaxViolations == 1
\* the hours of the run at which something is done: each tier is reached
\* from hour 0, and the first tier again from hour 48
Times == {12, 48, 60, 168}
\* points_change of the violations scored while the checkers run
StreakBreaks == {-200}

Checkers == {"daemon", "scheduled"}

NoCheck == [hours_clean |-> 0, current_hours |-> 0, points |-> 0]

\* main_loop.py: the tier is chosen by hours_clean alone, then looked up
DaemonPoints(hours_clean, current_hours) ==
    IF hours_clean >= 168 THEN (IF current_hours < 168 THEN 100 ELSE 0)
    ELSE IF hours_clean >= 48 THEN (IF current_hours < 48 THEN 50 ELSE 0)
    ELSE IF hours_clean >= 12 THEN (IF current_hours < 12 THEN 20 ELSE 0)
    ELSE 0

\* reward_automation.py: the first tier reached and not yet awarded
ScheduledPoints(hours_clean, current_hours) ==
    IF hours_clean >= 12 /\ current_hours < 12 THEN 20
    ELSE IF hours_clean >= 48 /\ current_hours < 48 THEN 50
    ELSE IF hours_clean >= 168 /\ current_hours < 168 THEN 100
    ELSE 0

PointsOf(c, hours_clean, current_hours) ==
    IF c = "daemon" THEN DaemonPoints(hours_clean, current_hours)
    ELSE ScheduledPoints(hours_clean, current_hours)

RewardInit ==
    /\ clock = 0
    /\ today = 0
    /\ file  = Ledger(DefaultState(0, 0))
    /\ ret   = NoCall
    /\ pc    = [c \in Checkers |-> "idle"]
    /\ op    = [c \in Checkers |-> [name |-> c, a |-> 0, b |-> 0]]
    /\ local = [c \in Checkers |-> NoCheck]
    /\ got   = [c \in Checkers |-> NoCall]
    /\ flock = [c \in Checkers |-> "none"]
    /\ IdleVerifier
    /\ clients = {}
    /\ call = NoRequest

\* hours_clean = self.state_manager.get_hours_since_last_violation().  The
\* daemon reads no further when hours_clean is below 12.
CheckHours(c) ==
    LET hours_clean == HoursSinceLastViolation(file.data, clock) IN
    /\ pc[c] = "idle"
    /\ got' = [got EXCEPT ![c] = NoCall]
    /\ IF c = "daemon" /\ hours_clean < 12
       THEN pc' = pc /\ local' = local
       ELSE /\ pc' = [pc EXCEPT ![c] = "hours"]
            /\ local' = [local EXCEPT ![c] = [NoCheck EXCEPT !.hours_clean = hours_clean]]
    /\ UNCHANGED <<file, clock, today, ret, op, flock, extVars>>

\* get_full_state()["clean_streaks"]["current_hours"] and the choice of the tier
CheckStreak(c) ==
    LET current_hours == file.data.clean_streaks.current_hours
        points == PointsOf(c, local[c].hours_clean, current_hours)
    IN  /\ pc[c] = "hours"
        /\ IF points > 0
           THEN /\ pc' = [pc EXCEPT ![c] = "award"]
                /\ local' = [local EXCEPT ![c] = [@ EXCEPT !.current_hours = current_hours,
                                                           !.points = points]]
           ELSE /\ pc' = [pc EXCEPT ![c] = "idle"]
                /\ local' = [local EXCEPT ![c] = NoCheck]
        /\ UNCHANGED <<file, clock, today, ret, got, op, flock, extVars>>

\* add_reward(int(hours_clean), points)
CheckAward(c) ==
    /\ pc[c] = "award"
    /\ file' = Ledger(AddRewardState(file.data, local[c].hours_clean,
                                     local[c].points, clock))
    /\ pc' = [pc EXCEPT ![c] = "idle"]
    /\ local' = [local EXCEPT ![c] = NoCheck]
    /\ got' = [got EXCEPT ![c] = Returned(c, local[c].points)]
    /\ UNCHANGED <<clock, today, ret, op, flock, extVars>>

\* a text is scored and found in violation
StreakBroken(p) ==
    /\ file.data.total_violations < MaxViolations
    /\ file' = Ledger(AddViolationState(file.data, p, clock))
    /\ UNCHANGED <<clock, today, ret, procVars, extVars>>

\* time passes until hour t.  A check takes seconds: the clock, which counts
\* hours, stands still while one is running.
Wait(t) ==
    /\ \A c \in Checkers : pc[c] = "idle"
    /\ clock < t
    /\ clock' = t
    /\ today' = t \div 24
    /\ UNCHANGED <<file, ret, procVars, extVars>>

RewardNext ==
    \/ \E c \in Checkers : CheckHours(c)
    \/ \E c \in Checkers : CheckStreak(c)
    \/ \E c \in Checkers : CheckAward(c)
    \/ \E p \in StreakBreaks : StreakBroken(p)
    \/ \E t \in Times : Wait(t)

RewardSpec == RewardInit /\ [][RewardNext]_vars

----------------------------------------------------------------------------
(* Properties of the ledger *)

IsLedger == file.kind = "ledger"

RECURSIVE Replay(_, _)
\* the score after applying the points_change of the events of h, in order, to start
Replay(start, h) ==
    IF h = << >> THEN start ELSE Replay(start + Head(h).points_change, Tail(h))

\* the events ever recorded in the dict: none of the three counters is truncated
Recorded(s) ==
    s.total_violations + s.clean_streaks.total_rewards_earned + Len(s.manual_overrides)

\* the score before the oldest event of h
ScoreBefore(h) == h[1].new_score - h[1].points_change

OverridesIn(h) == SelectSeq(h, LAMBDA e : e.type = "manual_override")

IsSuffix(a, b) ==
    Len(a) <= Len(b) /\ a = SubSeq(b, Len(b) - Len(a) + 1, Len(b))

RECURSIVE IsSubsequence(_, _)
IsSubsequence(a, b) ==
    IF a = << >> THEN TRUE
    ELSE IF b = << >> THEN FALSE
    ELSE IF Head(a) = Head(b) THEN IsSubsequence(Tail(a), Tail(b))
    ELSE IsSubsequence(a, Tail(b))

\* C3, as claimed: replaying the points_change of the events of history from
\* the initial score 200 reproduces current_score.
C3_ReplayFromInitialScore ==
    IsLedger => Replay(INITIAL_SCORE, file.data.history) = file.data.current_score

\* C3, amended: replaying history from the initial score reproduces
\* current_score as long as history holds every event recorded; once the cap
\* has dropped events, the replay reproduces current_score when it starts
\* from the score before the oldest retained event.
C3_ReplayOfRetainedHistory ==
    IsLedger =>
        LET s == file.data IN
        /\ Len(s.history) = Recorded(s) =>
               Replay(INITIAL_SCORE, s.history) = s.current_score
        /\ s.history # << >> =>
               Replay(ScoreBefore(s.history), s.history) = s.current_score

\* C3 witness: events were dropped, and the replay from 200 misses the score
C3_Witness ==
    /\ IsLedger
    /\ Len(file.data.history) < Recorded(file.data)
    /\ Replay(INITIAL_SCORE, file.data.history) # file.data.current_score
    /\ Replay(ScoreBefore(file.data.history), file.data.history) = file.data.current_score

\* C4: for adjacent events of history the later new_score is the earlier
\* new_score plus the later points_change, and the newest new_score is
\* current_score, also after truncation.
C4_ScoreChain ==
    IsLedger =>
        LET h == file.data.history IN
        /\ \A i \in 2..Len(h) : h[i].new_score = h[i-1].new_score + h[i].points_change
        /\ h # << >> => h[Len(h)].new_score = file.data.current_score

\* C4 witness: a truncated history of several events of different types
C4_Witness ==
    /\ IsLedger
    /\ Len(file.data.history) < Recorded(file.data)
    /\ Len(file.data.history) >= HistoryCap
    /\ \E i, j \in 1..Len(file.data.history) :
           file.data.history[i].type # file.data.history[j].type

\* C7, as claimed: history never holds more events than the cap.
C7_HistoryWithinCap ==
    IsLedger => Len(file.data.history) <= HistoryCap

\* C8, as claimed: manual_overrides is a subsequence of history.
C8_OverridesSubsequenceOfHistory ==
    IsLedger => IsSubsequence(file.data.manual_overrides, file.data.history)

\* C8, amended: the manual_override events of history are, in the same
\* order, the newest entries of manual_overrides; as long as history holds
\* every event recorded they are all of manual_overrides.
C8_RetainedOverrides ==
    IsLedger =>
        LET s == file.data IN
        /\ IsSuffix(OverridesIn(s.history), s.manual_overrides)
        /\ Len(s.history) = Recorded(s) => OverridesIn(s.history) = s.manual_overrides

\* C8 witness: an override was dropped from history, a later one is retained
C8_Witness ==
    /\ IsLedger
    /\ OverridesIn(file.data.history) # << >>
    /\ Len(OverridesIn(file.data.history)) < Len(file.data.manual_overrides)

\* C9, as claimed: a read that finds the record missing, corrupt or
\* unreadable does not raise, returns the default ledger and leaves the
\* default ledger in the store.
C9_ReadSelfHeals ==
    [][ (~IsLedger /\ ret'.op = "get_full_state") =>
            /\ ~ret'.raised
            /\ ret'.val = DefaultState(clock, today)
            /\ file' = Ledger(DefaultState(clock, today)) ]_vars

\* C10: update_api_usage leaves current_score, history, manual_overrides,
\* total_violations, last_violation_timestamp and clean_streaks as it read
\* them, and appends no event.
C10_UsageUpdateFrame ==
    [][ (ret'.op = "update_api_usage" /\ ~ret'.raised) =>
            LET before == ReadState(file, clock, today).state
                after  == file'.data
            IN  /\ file'.kind = "ledger"
                /\ after.current_score = before.current_score
                /\ after.history = before.history
                /\ after.manual_overrides = before.manual_overrides
                /\ after.total_violations = before.total_violations
                /\ after.last_violation_timestamp = before.last_violation_timestamp
                /\ after.clean_streaks = before.clean_streaks ]_vars

\* C10 witness: usage was charged, on a new day, to a ledger that holds events
C10_Witness ==
    /\ ret.op = "update_api_usage" /\ ~ret.raised
    /\ IsLedger
    /\ file.data.history # << >>
    /\ file.data.manual_overrides # << >>
    /\ file.data.daily_api_usage.date > 0
    /\ file.data.daily_api_usage.judge_calls > 0

\* C11: the daily usage counters cover only the current UTC date.  An
\* update_api_usage on the stored date adds its judge_calls and cost to the
\* stored counters; one on another date stores today's date and the counters
\* of that call alone; get_daily_api_usage returns the stored counters on the
\* stored date and zero counters, dated today, on any other date.
C11_DailyCountersOfToday ==
    [][ LET old == file.data.daily_api_usage IN
        /\ (IsLedger /\ ret'.op = "update_api_usage" /\ ~ret'.raised) =>
               \E u \in UsageInputs :
                   LET new == file'.data.daily_api_usage IN
                   /\ file'.kind = "ledger"
                   /\ new.date = today
                   /\ new.judge_calls =
                         (IF old.date = today THEN old.judge_calls ELSE 0) + u[1]
                   /\ new.cost_estimate =
                         (IF old.date = today THEN old.cost_estimate ELSE 0) + u[2]
        /\ (IsLedger /\ ret'.op = "get_daily_api_usage" /\ ~ret'.raised) =>
               /\ old.date = today => ret'.val = old
               /\ old.date # today =>
                      ret'.val = [date |-> today, judge_calls |-> 0, cost_estimate |-> 0]
               /\ file' = file ]_vars

\* C11 witness: usage charged twice on one day, midnight passed, and
\* get_daily_api_usage reported zero counters for the new day
C11_Witness ==
    /\ IsLedger
    /\ ret.op = "get_daily_api_usage" /\ ~ret.raised
    /\ file.data.daily_api_usage.date # today
    /\ file.data.daily_api_usage.judge_calls = 2
    /\ ret.val.date = today
    /\ ret.val.judge_calls = 0

\* C30: add_violation with points_change p sets current_score to the score
\* it read plus p, adds 1 to total_violations, sets last_violation_timestamp
\* to the time of the call, sets the current_hours of the clean streak to 0
\* and returns a record whose new_score is the score it read plus p; the
\* hours since the last violation are counted from that time on: they are 0
\* at the time of the call, and get_hours_since_last_violation returns the
\* time that passed since the last_violation_timestamp.
C30_AddViolationEffect ==
    [][ LET old_score == IF IsLedger THEN file.data.current_score ELSE 200
            old_total == IF IsLedger THEN file.data.total_violations ELSE 0
        IN  /\ (ret'.op = "add_violation" /\ ~ret'.raised /\ clock' = clock + 1) =>
                   \E p \in ViolationPoints :
                       /\ file'.kind = "ledger"
                       /\ file'.data.current_score = old_score + p
                       /\ file'.data.total_violations = old_total + 1
                       /\ file'.data.last_violation_timestamp = clock
                       /\ file'.data.clean_streaks.current_hours = 0
                       /\ ret'.val.points_change = p
                       /\ ret'.val.new_score = old_score + p
                       /\ HoursSinceLastViolation(file'.data, clock) = 0
            /\ (/\ ret'.op = "get_hours_since_last_violation" /\ ~ret'.raised
                 /\ IsLedger /\ file.data.total_violations > 0) =>
                   ret'.val = clock - file.data.last_violation_timestamp ]_vars

\* C30 witness: a violation after a reward for 12 clean hours: the streak is
\* back at 0 and the score is 200 - 100 + 20 - 300
C30_Witness ==
    /\ ret.op = "add_violation" /\ ~ret.raised
    /\ IsLedger
    /\ file.data.total_violations = 2
    /\ file.data.clean_streaks.longest_hours = 12
    /\ file.data.clean_streaks.current_hours = 0
    /\ file.data.current_score = -180
    /\ ret.val.new_score = -180
    /\ file.data.last_violation_timestamp = clock - 1

\* C31: add_reward(h, p) sets current_score to the score it read plus p, sets
\* clean_streaks.current_hours to h, adds exactly 1 to total_rewards_earned
\* and sets longest_hours to the larger of its former value and h, and leaves
\* total_violations and last_violation_timestamp as they were; the
\* consequence level follows the new score, so a reward can lift it (from
\* model_downgrade to normal).
C31_AddRewardEffect ==
    [][ \A c \in Checkers :
          (pc[c] = "award" /\ pc'[c] = "idle") =>
              LET s == file.data
                  t == file'.data
                  h == local[c].hours_clean
                  p == local[c].points
              IN  /\ t.current_score = s.current_score + p
                  /\ t.clean_streaks.current_hours = h
                  /\ t.clean_streaks.total_rewards_earned =
                         s.clean_streaks.total_rewards_earned + 1
                  /\ t.clean_streaks.longest_hours =
                         (IF s.clean_streaks.longest_hours > h
                          THEN s.clean_streaks.longest_hours ELSE h)
                  /\ t.total_violations = s.total_violations
                  /\ t.last_violation_timestamp = s.last_violation_timestamp
                  /\ SMLevel(t.current_score) = SMLevel(s.current_score + p) ]_vars

\* C31 witness: a violation of -200 brought the score to 0 (model_downgrade),
\* and the reward for 12 clean hours has lifted it to 20 (normal)
C31_Witness ==
    /\ \E c \in Checkers : pc[c] = "idle" /\ got[c] = Returned(c, 20)
    /\ file.data.total_violations = 1
    /\ Len(file.data.history) = 2
    /\ file.data.history[1].type = "violation"
    /\ SMLevel(file.data.history[1].new_score) = "model_downgrade"
    /\ file.data.history[2].type = "reward"
    /\ file.data.current_score = 20
    /\ SMLevel(file.data.current_score) = "normal"
    /\ file.data.clean_streaks.current_hours = 12
    /\ file.data.clean_streaks.total_rewards_earned = 1

\* the type of event each appending method records
EventTypeOf(name) ==
    CASE name = "add_violation"       -> "violation"
      [] name = "add_reward"          -> "reward"
      [] name = "add_manual_override" -> "manual_override"
      [] OTHER                        -> "none"

\* C32: each add_violation, add_reward and add_manual_override call appends
\* exactly one event of its own type as the newest entry of history, the
\* older entries staying as they were (but for those the length cap drops);
\* and for every limit n >= 0 get_recent_history(n) returns the
\* min(n, length of history) newest events, newest first.
C32_AppendOneAndRecentHistory ==
    [][ /\ (ret'.op \in {"add_violation", "add_reward", "add_manual_override"}
              /\ ~ret'.raised /\ clock' = clock + 1) =>
                LET h == file.data.history
                    k == file'.data.history
                IN  /\ Len(k) >= 1
                    /\ k[Len(k)] = ret'.val
                    /\ k[Len(k)].type = EventTypeOf(ret'.op)
                    /\ k[Len(k)].timestamp = clock
                    /\ IsSuffix(SubSeq(k, 1, Len(k) - 1), h)
                    /\ Len(k) = Len(h) + 1 \/ Len(k) = HistoryCap
        /\ (ret'.op = "get_recent_history" /\ ~ret'.raised) =>
                LET h == file.data.history
                    n == ret'.val.limit
                    v == ret'.val.events
                IN  /\ file' = file
                    /\ Len(v) = (IF n < Len(h) THEN n ELSE Len(h))
                    /\ \A i \in 1..Len(v) : v[i] = h[Len(h) - i + 1] ]_vars

\* the clauses of a text that some claim pattern matches, a clause without
\* its "I" counted as the clause with it
MatchedClauses(words) ==
    LET clauses == SplitClauses(words, 1, << >>)
    IN  { SearchTexts(clauses[k])[Len(SearchTexts(clauses[k]))] :
              k \in {n \in 1..Len(clauses) : ClauseMatches(clauses[n]) # << >>} }

\* every pattern that matches the clause is a capability pattern
IsCapabilityClause(clause) ==
    \A n \in 1..Len(AllPatterns) :
        PatternMatches(AllPatterns[n], clause) # << >> =>
            AllPatterns[n].kind = "capability_limitation"

\* C33: extract_factual_claims returns claims with pairwise distinct claim
\* text, one for each clause that a pattern matches: two capability clauses
\* joined by "and" give exactly 2 claims of kind capability_limitation, one
\* such clause gives exactly 1, and a text no pattern matches gives none.
C33_OneClaimPerMatchedClause ==
    spc = "extracted" =>
        LET words == out.text
            cl == claims
        IN  /\ \A i, j \in 1..Len(cl) : i # j => cl[i].text # cl[j].text
            /\ Len(cl) = Cardinality(MatchedClauses(words))
            /\ (\A c \in MatchedClauses(words) : IsCapabilityClause(c)) =>
                   \A i \in 1..Len(cl) : cl[i].kind = "capability_limitation"

----------------------------------------------------------------------------
(* Properties of the Verifier *)

Last(q) == q[Len(q)]

\* the counters get_daily_api_usage would report for the file as it is
UsageToday == DailyUsage(file.data, today)

\* what the call did for the claim at i, after its evidence query
BeyondEvidence(l, i) == SelectSeq(l, LAMBDA e : e.claim = i /\ e.what # "evidence")

\* C12: when the evidence query of a claim returns no passage,
\* check_claim_veracity returns at once with verdict UNVERIFIABLE and
\* confidence 0; no judge model was called for the claim and state.json is
\* as it was, also when the budget of the day is used up.
C12_NoEvidenceShortCircuit ==
    [][ (Len(log') = Len(log) + 1 /\ Last(log').what = "evidence"
                                   /\ Last(log').res = "none") =>
            /\ spc' = "sleep"
            /\ Len(results') = Len(results) + 1
            /\ Last(results').claim = claims[idx]
            /\ Last(results').verdict = "UNVERIFIABLE"
            /\ Last(results').confidence = 0
            /\ BeyondEvidence(log', idx) = << >>
            /\ file' = file ]_vars

\* C12 witness: no passage was found for a claim while the cost of the day
\* had reached the budget
C12_Witness ==
    /\ spc = "sleep"
    /\ Last(log).what = "evidence" /\ Last(log).res = "none"
    /\ Last(results).verdict = "UNVERIFIABLE"
    /\ IsLedger
    /\ UsageToday.cost_estimate >= DAILY_BUDGET

\* C13: when passages were found for a claim and the cost_estimate the
\* ledger holds for the current date is not below the budget,
\* check_claim_veracity returns verdict BUDGET_EXCEEDED with confidence 0; no
\* judge model was called for the claim and state.json, with its usage
\* counters, is as it was.
C13_BudgetExceeded ==
    [][ (spc = "budget" /\ spc' # "budget" /\ IsLedger
                        /\ UsageToday.cost_estimate >= DAILY_BUDGET) =>
            /\ spc' = "sleep"
            /\ Len(results') = Len(results) + 1
            /\ Last(results').claim = claims[idx]
            /\ Last(results').verdict = "BUDGET_EXCEEDED"
            /\ Last(results').confidence = 0
            /\ BeyondEvidence(log', idx) = << >>
            /\ file' = file ]_vars

\* C13 witness: a claim with passages met a cost of the day that was exactly
\* the budget, after two charged judge calls
C13_Witness ==
    /\ spc = "sleep"
    /\ Last(log).what = "evidence" /\ Last(log).res = "found"
    /\ Last(results).verdict = "BUDGET_EXCEEDED"
    /\ IsLedger
    /\ UsageToday.cost_estimate = DAILY_BUDGET
    /\ UsageToday.judge_calls = 2

\* the judge calls made for the claim at i, in the order they were made
JudgeCalls(l, i) == SelectSeq(l, LAMBDA e : e.claim = i /\ e.what = "judge")

RoutedClaims == {i \in 1..Len(claims) : Routed(claims[i])}

\* C14 as claimed: a judge model is called only after every model before it
\* in judge_models has been called and has failed.
C14_OnlyAfterAllEarlierFailed ==
    \A i \in RoutedClaims :
        LET calls == JudgeCalls(log, i) IN
        \A k \in 1..Len(calls) :
            \A m \in 1..(calls[k].model - 1) :
                \E j \in 1..(k - 1) : calls[j].model = m /\ calls[j].res = "raised"

\* C14, amended: within one check_claim_veracity call a judge model is called
\* only if its service has a client, and only after every model before it in
\* judge_models whose service has a client has been called and has failed; a
\* model whose service has no client is passed over without a call; no model
\* is called twice; a call that succeeds is the last one; and when the loop
\* ends without a success the verdict is ERROR.
C14_FallbackOrder ==
    [][ /\ \A i \in RoutedClaims :
              LET calls == JudgeCalls(log', i) IN
              /\ \A k \in 1..Len(calls) :
                    /\ JUDGE_MODELS[calls[k].model].service \in clients
                    /\ \A m \in 1..(calls[k].model - 1) :
                          JUDGE_MODELS[m].service \in clients =>
                              \E j \in 1..(k - 1) :
                                  calls[j].model = m /\ calls[j].res = "raised"
                    /\ \A j \in 1..Len(calls) : calls[j].model = calls[k].model => j = k
                    /\ calls[k].res = "ok" => k = Len(calls)
        /\ (spc = "judge" /\ spc' = "sleep") =>
              /\ \A k \in 1..Len(JudgeCalls(log, idx)) : JudgeCalls(log, idx)[k].res = "raised"
              /\ \A m \in 1..Len(JUDGE_MODELS) :
                    JUDGE_MODELS[m].service \in clients =>
                        \E k \in 1..Len(JudgeCalls(log, idx)) : JudgeCalls(log, idx)[k].model = m
              /\ Last(results').claim = claims[idx]
              /\ Last(results').verdict = "ERROR" ]_vars

\* C14 witness: both services have a client, the two anthropic models failed
\* and the openai model answered
C14_Witness ==
    /\ spc = "charge"
    /\ clients = {"anthropic", "openai"}
    /\ LET calls == JudgeCalls(log, idx) IN
       /\ Len(calls) = 3
       /\ calls[1].model = 1 /\ calls[1].res = "raised"
       /\ calls[2].model = 2 /\ calls[2].res = "raised"
       /\ calls[3].model = 3 /\ calls[3].res = "ok"

\* the results of the running analysis that carry a verdict of a judge model
Judged(rs) == SelectSeq(rs, LAMBDA r : r.reasoning = "judge")

\* C15: whenever check_claim_veracity has returned the verdict of a judge
\* model, the charge of that judge call is in the ledger: the judge_calls of
\* the day count every judge verdict the caller holds, and a cost is
\* recorded for them.
C15_JudgeVerdictsCharged ==
    /\ IsLedger
    /\ UsageToday.judge_calls >= Len(Judged(results))
    /\ Judged(results) # << >> => UsageToday.cost_estimate > 0

\* how often check_claim_veracity was entered for the claim at i: it starts
\* with the evidence query
Verified(l, i) == Len(SelectSeq(l, LAMBDA e : e.claim = i /\ e.what = "evidence"))

\* C16: analyze_text_for_lies calls check_claim_veracity once for each
\* extracted claim of kind capability_limitation with confidence >= 0.8, in
\* the order of extraction, and for no other claim: nothing the call did
\* outside itself (evidence query, judge call, charge) is for a claim of
\* another kind or of lower confidence.
C16_OnlyConfidentCapabilityClaims ==
    LET confident == {i \in 1..Len(claims) :
                         /\ claims[i].kind = "capability_limitation"
                         /\ claims[i].confidence >= 8}
        passed    == IF spc = "loop" THEN 1..(idx - 1) ELSE 1..idx
    IN  /\ \A k \in 1..Len(log) : log[k].claim \in confident
        /\ \A k \in 1..Len(log) : \A j \in 1..k : log[j].claim <= log[k].claim
        /\ spc # "idle" =>
              \A i \in passed \cap DOMAIN claims :
                  Verified(log, i) = IF i \in confident THEN 1 ELSE 0
        /\ (spc = "idle" /\ out.returned /\ ~out.failed) =>
              /\ \A i \in DOMAIN claims :
                    Verified(log, i) = IF i \in confident THEN 1 ELSE 0
              /\ Len(results) = Cardinality(confident)

\* C16 witness: an analysis returned for a text with a factual statement
\* between two capability claims; the two capability claims were verified
C16_Witness ==
    /\ spc = "idle" /\ out.returned /\ ~out.failed
    /\ Len(claims) = 3
    /\ claims[2].kind = "factual_statement"
    /\ Verified(log, 1) = 1 /\ Verified(log, 2) = 0 /\ Verified(log, 3) = 1
    /\ Len(results) = 2
    /\ \E k \in 1..Len(log) : log[k].what = "charge"

\* what check_claim_veracity returns for the claim c when every judge model
\* that was called has failed: "Judge LLM error: All Judge LLM models failed"
AllJudgesFailed(c) == VeracityResult(c, "ERROR", 0, "error")

\* the results of the running analysis for which the judge loop was entered
PastBudget(rs) == {k \in 1..Len(rs) : rs[k].reasoning \notin {"no_evidence", "budget"}}

\* C27: when no judge service has a client, what check_claim_veracity
\* returns for a claim that got as far as the judge loop can be told from
\* what it returns when the judge models were called and all failed.
C27_UnconfiguredToldApart ==
    clients = {} =>
        \A k \in PastBudget(results) : results[k] # AllJudgesFailed(results[k].claim)

\* the answers of judge models that _parse_judge_response was given
Parses(l) == SelectSeq(l, LAMBDA e : e.what = "parse")

\* C28: _parse_judge_response never raises, whatever the answer of the judge
\* model holds, also a CONFIDENCE value that is not a number; an answer
\* without VERDICT gets verdict UNVERIFIABLE, one without CONFIDENCE gets
\* confidence 0.5 and one without REASONING gets the answer as its reasoning.
C28_ParseNeverRaises ==
    /\ \A k \in 1..Len(Parses(log)) : Parses(log)[k].res = "ok"
    /\ jres.ok =>
          /\ jres.raw_response.verdict = "" => jres.verdict = "UNVERIFIABLE"
          /\ jres.raw_response.confidence = "" => jres.confidence = 5
          /\ jres.raw_response.reasoning = "" => jres.reasoning = "raw"

\* C29: every verdict check_claim_veracity returns is one of LIE,
\* HALLUCINATION, TRUE, UNVERIFIABLE, BUDGET_EXCEEDED and ERROR, whatever the
\* judge model answers.
C29_VerdictInFixedSet ==
    \A k \in 1..Len(results) :
        results[k].verdict \in {"LIE", "HALLUCINATION", "TRUE", "UNVERIFIABLE",
                                "BUDGET_EXCEEDED", "ERROR"}

----------------------------------------------------------------------------
(* Properties of the Scoring Engine *)

\* score_text has returned, and analyze_text_for_lies had returned to it
AnalysisReturned == spc = "idle" /\ out.returned /\ ~out.failed

WithVerdict(rs, v) == {k \in 1..Len(rs) : rs[k].verdict = v}

\* the violations of out that the detectors do not report
FromVerifier(vs) == SelectSeq(vs, LAMBDA v : v.type = "lie_auto")

\* C17: when analyze_text_for_lies has returned its analysis, what the
\* Verifier adds to the total of score_text is -50 for each result whose
\* verdict is LIE, in one lie_auto violation whose count is the number of
\* those results; results with verdict ERROR, BUDGET_EXCEEDED or
\* UNVERIFIABLE (or any verdict other than LIE) add nothing.
C17_LiePenaltyPerLieVerdict ==
    AnalysisReturned =>
        LET lies == Cardinality(WithVerdict(results, "LIE"))
            rest == SelectSeq(out.violations, LAMBDA v : v.type # "lie_auto")
        IN  /\ out.total_points = TotalPoints(rest) + (-50) * lies
            /\ rest = PatternViolations(out.text)
            /\ IF lies = 0
               THEN FromVerifier(out.violations) = << >>
               ELSE /\ Len(FromVerifier(out.violations)) = 1
                    /\ FromVerifier(out.violations)[1].count = lies
                    /\ FromVerifier(out.violations)[1].points_deducted = (-50) * lies

\* C17 witness: an analysis with a LIE verdict next to a verdict that no judge
\* model gave
C17_Witness ==
    /\ AnalysisReturned
    /\ Len(results) = 2
    /\ results[1].verdict = "LIE"
    /\ results[2].verdict \in {"ERROR", "BUDGET_EXCEEDED", "UNVERIFIABLE"}
    /\ out.total_points = TotalPoints(PatternViolations(out.text)) - 50

\* C18: a veracity check that fails does not keep score_text from returning
\* what the detectors found.  When analyze_text_for_lies raised, or every
\* verified claim ended with verdict ERROR, score_text returns exactly the
\* violations of the detectors and the sum of their points; and the step in
\* which the exception is raised is the step in which score_text returns.
C18_PatternPathSurvivesFailure ==
    [][ /\ (spc' = "idle" /\ out'.returned /\
            (out'.failed \/ (results' # << >> /\
                             \A k \in 1..Len(results') : results'[k].verdict = "ERROR"))) =>
               /\ out'.violations = PatternViolations(out'.text)
               /\ out'.total_points = TotalPoints(PatternViolations(out'.text))
        /\ out'.failed => (spc' = "idle" /\ out'.returned /\ out'.text = out.text) ]_vars

\* C18 witness: analyze_text_for_lies raised after a judge call had been
\* charged, for a text in which the detectors found violations
C18_Witness ==
    /\ spc = "idle" /\ out.returned /\ out.failed
    /\ \E k \in 1..Len(log) : log[k].what = "charge" /\ log[k].res = "ok"
    /\ Len(out.violations) = 3
    /\ out.total_points = -50

\* the violations of one type among vs
OfType(vs, type) == SelectSeq(vs, LAMBDA v : v.type = type)

\* C24: for a text without an allowed explanation in which the hedging
\* patterns match n times, score_text returns exactly one excessive_hedging
\* violation, with count n and -5 * n points, when n > 2, and no
\* excessive_hedging violation when n <= 2.
C24_HedgingGate ==
    (out.returned /\ ~out.text.allowed) =>
        LET n  == out.text.hedges
            hv == OfType(out.violations, "excessive_hedging")
        IN  IF n > 2
            THEN /\ Len(hv) = 1
                 /\ hv[1].count = n
                 /\ hv[1].points_deducted = (-5) * n
            ELSE hv = << >>

\* C24 witness: three hedging phrases and nothing else cost 15 points
C24_Witness ==
    /\ out.returned /\ ~out.text.allowed
    /\ out.text.hedges = 3
    /\ Len(out.violations) = 1
    /\ out.violations[1].type = "excessive_hedging"
    /\ out.total_points = -15

\* C25: for a text with d em dashes and v invisible characters, score_text
\* returns an em_dash violation exactly when d > 0, with count d and -10 * d
\* points, and an invisible_char violation exactly when v > 0, with count v
\* and -20 * v points; no kind occurs twice, and a text with neither mark
\* gets neither violation.
C25_MarksCountedPerOccurrence ==
    out.returned =>
        LET d  == out.text.dashes
            v  == out.text.invisibles
            dv == OfType(out.violations, "em_dash")
            iv == OfType(out.violations, "invisible_char")
        IN  /\ IF d > 0
               THEN Len(dv) = 1 /\ dv[1].count = d /\ dv[1].points_deducted = (-10) * d
               ELSE dv = << >>
            /\ IF v > 0
               THEN Len(iv) = 1 /\ iv[1].count = v /\ iv[1].points_deducted = (-20) * v
               ELSE iv = << >>
            /\ \A i, j \in 1..Len(out.violations) :
                   out.violations[i].type = out.violations[j].type => i = j

\* C25 witness: two em dashes and two invisible characters in a text with
\* nothing else cost 20 and 40 points
C25_Witness ==
    /\ out.returned
    /\ out.text.dashes = 2 /\ out.text.invisibles = 2
    /\ Len(out.violations) = 2
    /\ out.violations[1].type = "em_dash" /\ out.violations[1].points_deducted = -20
    /\ out.violations[2].type = "invisible_char" /\ out.violations[2].points_deducted = -40
    /\ out.total_points = -60

\* C26: for a text that holds an allowed explanation score_text returns
\* without an excessive_hedging and without a system_reference violation,
\* however many hedging phrases and references to training the text holds,
\* and without a veracity check: no claim is extracted, no evidence is
\* queried, no judge model is called and state.json is as it was.
C26_AllowedExplanationSkipsChecks ==
    [][ (spc = "idle" /\ out'.text.allowed) =>
            /\ out'.returned /\ ~out'.failed
            /\ spc' = "idle"
            /\ OfType(out'.violations, "excessive_hedging") = << >>
            /\ OfType(out'.violations, "system_reference") = << >>
            /\ OfType(out'.violations, "lie_auto") = << >>
            /\ claims' = << >>
            /\ results' = << >>
            /\ log' = << >>
            /\ file' = file ]_vars

\* C26 witness: a text with an allowed explanation, four hedging phrases, a
\* reference to training, a capability claim and an em dash was charged for
\* the em dash alone
C26_Witness ==
    /\ spc = "idle" /\ out.returned
    /\ out.text.allowed
    /\ out.text.hedges = 4 /\ out.text.sysref
    /\ out.text.matches = <<Cap("a")>>
    /\ out.text.dashes = 1 /\ out.text.invisibles = 0
    /\ Len(out.violations) = 1
    /\ out.total_points = -10
    /\ claims = << >>

\* a step in which the manual path `name` ran
ManualStep(name) == clock' = clock + 1 /\ ret'.op = name /\ ~ret'.raised

\* C23: a manual lie flag yields exactly one violation, of type lie_manual,
\* count 1 and -75 points, whatever the flagged text holds, and the score
\* goes down by 75; neither the manual flag nor the manual adjustment
\* extracts claims, queries evidence, calls a judge model or charges one:
\* the daily usage counters and everything the Verifier holds are as before.
C23_ManualPathsBypassVerifier ==
    [][ /\ ManualStep("manual_flag") =>
              /\ Len(ret'.val.violations) = 1
              /\ ret'.val.violations[1].type = "lie_manual"
              /\ ret'.val.violations[1].points_deducted = -75
              /\ ret'.val.violations[1].count = 1
              /\ ret'.val.record.points_change = -75
              /\ file'.data.current_score = file.data.current_score - 75
        /\ (ManualStep("manual_flag") \/ ManualStep("add_manual_override")) =>
              /\ file'.data.daily_api_usage = file.data.daily_api_usage
              /\ log' = log
              /\ claims' = claims
              /\ results' = results
              /\ out' = out ]_vars

\* C23 witness: after a score_text call that charged a judge call and after a
\* manual adjustment, a text in which the detectors find violations and
\* claims was flagged by hand
C23_Witness ==
    /\ ret.op = "manual_flag" /\ ~ret.raised
    /\ PatternViolations(ret.val.text) # << >>
    /\ ExtractFactualClaims(ret.val.text) # << >>
    /\ ret.val.violations[1].points_deducted = -75
    /\ file.data.manual_overrides # << >>
    /\ file.data.daily_api_usage.judge_calls = 1
    /\ \E k \in 1..Len(log) : log[k].what = "charge"

----------------------------------------------------------------------------
(* Properties of the API wrapper *)

\* the error dict of a termination result, wherever the entry point puts it
TerminationError(c) ==
    IF c.by = "wrapper" THEN c.result.body.error
    ELSE c.result.body._termination_response.error

C20_TerminationDiscardsRequest ==
    (/\ call.made
     /\ call.request.model \notin {"gpt-4o", "gpt-4o-mini"}
     /\ IsLedger /\ file.data.current_score < -500) =>
        /\ ~call.sent
        /\ call.result.kind = "terminated"
        /\ TerminationError(call).type = "model_realignment_termination"
        /\ Last(TerminationError(call).message) = file.data.current_score
        /\ "required_action" \in DOMAIN TerminationError(call)
        /\ TerminationError(call).required_action =
               "Manual score reset required to restore access"

\* the messages of a list that are not system messages, in their order
NonSystem(msgs) == SelectSeq(msgs, LAMBDA m : ~IsSystem(m))

\* the pieces of text that tell the model to answer tersely
TerseInstructions ==
    { "Respond with minimal, terse, factual answers only. No elaboration.",
      " Respond with minimal, terse, factual answers only.",
      SterileInstruction }

CarriesTerse(m) == \E k \in 1..Len(m.content) : m.content[k] \in TerseInstructions

\* the content of a message without what a context restriction put into it
OriginalContent(m) ==
    SelectSeq(m.content, LAMBDA piece : piece \notin TerseInstructions \cup {" "})

\* the system messages of a list that came with the request, as they came
OriginalSystem(msgs) ==
    LET sys == SelectSeq(msgs, LAMBDA m : IsSystem(m) /\ OriginalContent(m) # << >>)
    IN  [k \in 1..Len(sys) |-> OriginalContent(sys[k])]

\* C21: at level context_restriction the messages of the outbound request
\* are the system messages of the request, each once, and its last 4
\* non-system messages (all of them when there are fewer than 4): at most 4
\* non-system messages remain, none twice, and a system message carries the
\* terse-response instruction.
C21_SystemPlusLastFour ==
    (/\ call.made
     /\ call.request.model \notin {"gpt-4o", "gpt-4o-mini"}
     /\ IsLedger /\ SMLevel(file.data.current_score) = "context_restriction") =>
        LET before == call.request.messages
            after  == call.params.messages
        IN  /\ call.result.kind # "terminated"
            /\ NonSystem(after) = LastFour(NonSystem(before))
            /\ Len(NonSystem(after)) <= 4
            /\ OriginalSystem(after) =
                   [k \in 1..Len(SelectSeq(before, IsSystem)) |->
                       SelectSeq(before, IsSystem)[k].content]
            /\ \E k \in 1..Len(after) : IsSystem(after[k]) /\ CarriesTerse(after[k])

\* C22: at level model_downgrade the outbound request differs from the
\* request at most in its model: gpt-5 and gpt-5-turbo (and, in the
\* consequence engine, gpt-4.5) become gpt-4-turbo, any other model is kept,
\* and the messages and the other parameters are those of the request.
C22_DowngradeChangesOnlyModel ==
    (/\ call.made
     /\ call.request.model \notin {"gpt-4o", "gpt-4o-mini"}
     /\ IsLedger /\ SMLevel(file.data.current_score) = "model_downgrade") =>
        LET mapped == IF call.by = "wrapper" THEN {"gpt-5", "gpt-5-turbo"}
                      ELSE {"gpt-5", "gpt-5-turbo", "gpt-4.5"}
        IN  /\ call.result.kind # "terminated"
            /\ call.by = "wrapper" => call.sent
            /\ call.params.model = IF call.request.model \in mapped THEN "gpt-4-turbo"
                                   ELSE call.request.model
            /\ DOMAIN call.params = DOMAIN call.request
            /\ call.params.messages = call.request.messages
            /\ call.params.temperature = call.request.temperature

\* C22 witness: at score -100 the wrapper sent a six-message request for
\* gpt-5 to gpt-4-turbo with its messages as they came
C22_Witness ==
    /\ call.made /\ call.by = "wrapper" /\ call.sent
    /\ IsLedger /\ file.data.current_score = -100
    /\ call.request.model = "gpt-5"
    /\ call.params.model = "gpt-4-turbo"
    /\ Len(call.request.messages) = 6
    /\ call.params.messages = call.request.messages

----------------------------------------------------------------------------
(* Properties of concurrent use *)

\* a dict without its timestamps
Content(s) ==
    [ score      |-> s.current_score,
      history    |-> [i \in 1..Len(s.history) |->
                         <<s.history[i].type, s.history[i].points_change,
                           s.history[i].new_score>>],
      overrides  |-> [i \in 1..Len(s.manual_overrides) |->
                         <<s.manual_overrides[i].points_change,
                           s.manual_overrides[i].new_score>>],
      violations |-> s.total_violations,
      streaks    |-> s.clean_streaks,
      usage      |-> s.daily_api_usage ]

\* the orders the processes' methods can be run in, one after the other
Orders == {o \in [1..NumProcs -> Procs] : \A i, j \in 1..NumProcs : i # j => o[i] # o[j]}

RECURSIVE RunInOrder(_, _, _)
\* the dict after the methods of the first k processes of order o have run
\* on state, one after the other
RunInOrder(o, k, state) ==
    IF k = 0 THEN state
    ELSE Apply(op[o[k]], RunInOrder(o, k - 1, state), 0, today)

AllDone == \A p \in Procs : pc[p] = "done"

\* C1, as claimed: when concurrent mutations have all returned, the ledger
\* is the one some order of running them one after the other leaves, so no
\* score delta, history event or usage charge is lost.
C1_MutationsSerializable ==
    (AllDone /\ \A p \in Procs : op[p].name \in Mutations) =>
        /\ IsLedger
        /\ \E o \in Orders :
               Content(file.data) = Content(RunInOrder(o, NumProcs, ConcStart))

\* C2, as claimed: a read that runs concurrently with mutations returns the
\* ledger as it was before or as it is after each of them, never an empty
\* or partly written record (which the read turns into the default ledger).
C2_SnapshotRead ==
    \A p \in Procs :
        (pc[p] = "done" /\ op[p].name = "get_full_state") =>
            /\ ~got[p].raised
            /\ \E o \in Orders : \E k \in 0..NumProcs :
                   Content(got[p].val) = Content(RunInOrder(o, k, ConcStart))

----------------------------------------------------------------------------
(* Properties of the consequence level *)

\* C5, as claimed: normal when score > 0, model_downgrade when
\* -100 < score <= 0, context_restriction when -500 < score <= -100,
\* session_termination when score <= -500.
C5_ClaimedThresholds ==
    ret.op \in {"get_current_consequence_level", "simulate_consequence_at_score"} =>
        LET s == ret.val.score IN
        ret.val.level = IF s > 0 THEN "normal"
                        ELSE IF s > -100 THEN "model_downgrade"
                        ELSE IF s > -500 THEN "context_restriction"
                        ELSE "session_termination"

\* C5, amended: normal when score > 0, model_downgrade when
\* -100 <= score <= 0, context_restriction when -500 <= score < -100,
\* session_termination when score < -500; the level is that of the score
\* now in the ledger, whatever the consequence_level field stored there.
C5_CodeThresholds ==
    /\ ret.op \in {"get_current_consequence_level", "simulate_consequence_at_score"} =>
        LET s == ret.val.score
            l == ret.val.level
        IN  /\ (l = "normal") <=> (s > 0)
            /\ (l = "model_downgrade") <=> (-100 <= s /\ s <= 0)
            /\ (l = "context_restriction") <=> (-500 <= s /\ s < -100)
            /\ (l = "session_termination") <=> (s < -500)
    /\ ret.op = "get_current_consequence_level" =>
        /\ IsLedger
        /\ ret.val.score = file.data.current_score

\* C5 witness: at -100 the level computed is model_downgrade, while the
\* stored consequence_level field still reads normal
C5_Witness ==
    /\ ret.op = "get_current_consequence_level"
    /\ ret.val.score = -100
    /\ ret.val.level = "model_downgrade"
    /\ file.data.consequence_level = "normal"

\* the interval of the partition a level stands for
InInterval(l, s) ==
    CASE l = "session_termination" -> s < -500
      [] l = "context_restriction" -> -500 <= s /\ s < -100
      [] l = "model_downgrade"     -> -100 <= s /\ s <= 0
      [] l = "normal"              -> 0 < s

Levels == {"session_termination", "context_restriction", "model_downgrade", "normal"}

\* C6: the level is the one of the four intervals (-inf,-500), [-500,-100),
\* [-100,0], (0,+inf) that holds the score, exactly one for every score, and
\* StateManager.get_consequence_level and
\* ConsequenceEngine.get_current_consequence_level return the same level for
\* the score of every reachable ledger.
C6_LevelPartition ==
    /\ IsLedger =>
        LET s == file.data.current_score IN
        /\ SMLevel(s) = CELevel(s)
        /\ Cardinality({l \in Levels : InInterval(l, s)}) = 1
        /\ InInterval(SMLevel(s), s)
    /\ ret.op \in {"get_consequence_level", "get_current_consequence_level"} =>
        /\ ret.val.score = file.data.current_score
        /\ InInterval(ret.val.level, ret.val.score)

\* C6 witness: get_consequence_level has answered at the boundary -500
C6_Witness ==
    /\ ret.op = "get_consequence_level"
    /\ ret.val.score = -500
    /\ ret.val.level = "context_restriction"

----------------------------------------------------------------------------
(* The order of the verifications in one analysis *)

\* how many of the claims before the one at i the loop hands on
RoutedBefore(cs, i) == Cardinality({j \in 1..(i - 1) : Routed(cs[j])})

\* this step is the first of a verification: the evidence query of a claim
VerificationStarts ==
    /\ Len(log') = Len(log) + 1
    /\ log'[Len(log')].what = "evidence"

\* C34: within one analyze call the claims are verified one at a time and in
\* extraction order: the verification of a claim starts only when every
\* claim before it that is verified at all has its result, and after the
\* sleep that follows the result before; while a verification runs, and in
\* the sleep after it, no other starts and the loop stays at its claim.
C34_OneClaimAtATime ==
    [][ /\ VerificationStarts =>
              /\ spc = "loop"
              /\ log'[Len(log')].claim = idx
              /\ Len(results) = RoutedBefore(claims, idx)
              /\ \A k \in 1..Len(results) : results[k].claim = SelectSeq(claims, Routed)[k]
              /\ \A k \in 1..Len(log) : log[k].claim < idx
        /\ spc \in {"budget", "judge", "charge"} =>
              /\ ~VerificationStarts
              /\ idx' = idx
              /\ spc' \in {"budget", "judge", "charge", "sleep", "idle"}
        /\ spc = "sleep" =>
              /\ ~VerificationStarts
              /\ results' = results
              /\ idx' = idx \/ (idx' = idx + 1 /\ spc' = "loop")
        /\ (spc' = "sleep" /\ spc # "sleep") =>
              /\ Len(results') = Len(results) + 1
              /\ results'[Len(results')].claim = claims[idx] ]_vars

\* C34 witness: the verification of the third claim is running; the first
\* claim has its result, the second was not handed on
C34_Witness ==
    /\ spc = "budget"
    /\ idx = 3
    /\ Len(claims) = 3
    /\ Len(results) = 1
    /\ results[1].claim = claims[1]
    /\ ~Routed(claims[2])
    /\ \E k \in 1..Len(log) : log[k].what = "evidence" /\ log[k].claim = 3

----------------------------------------------------------------------------
(* An analysis given up between two claims *)

\* the call stands between two claims, or is over
AtClaimBoundary == spc \in {"loop", "sleep", "idle"}

\* the judge calls of the running call that returned a result
CompletedJudgeCalls(l) == Len(SelectSeq(l, LAMBDA e : e.what = "judge" /\ e.res = "ok"))

\* the charges the running call wrote to state.json
ChargesMade(l) == Len(SelectSeq(l, LAMBDA e : e.what = "charge" /\ e.res = "ok"))

\* the call was given up: it is over and has returned nothing
Abandoned == spc = "idle" /\ out # NoFrame /\ ~out.returned

\* C35: an analysis given up at a claim boundary leaves the ledger
\* consistent: no step of the analysis changes current_score, history or
\* total_violations; the daily usage counters change only by the charge that
\* follows a completed judge call, by one call and that call's cost; and at
\* every claim boundary, so wherever the call can be given up, each completed
\* judge call has its charge in the ledger.
C35_AbandonLeavesLedgerConsistent ==
    [][ /\ file'.data.current_score = file.data.current_score
        /\ file'.data.history = file.data.history
        /\ file'.data.total_violations = file.data.total_violations
        /\ file'.data.daily_api_usage # file.data.daily_api_usage =>
              /\ spc = "charge" /\ jres.ok
              /\ file'.data.daily_api_usage =
                     [ file.data.daily_api_usage EXCEPT
                         !.judge_calls = @ + 1, !.cost_estimate = @ + jres.cost ]
              /\ ChargesMade(log') = ChargesMade(log) + 1
        /\ ChargesMade(log') = ChargesMade(log) + 1 =>
              file'.data.daily_api_usage # file.data.daily_api_usage
        /\ spc' \in {"loop", "sleep", "idle"} =>
              ChargesMade(log') = CompletedJudgeCalls(log')
        /\ (AtClaimBoundary /\ spc' = "idle") => file' = file ]_vars

\* C35 witness: a call was given up after its first claim, with two more
\* claims to go; the one judge call that completed is in the counters
C35_Witness ==
    /\ Abandoned
    /\ idx = 1
    /\ Len(claims) = 3
    /\ Len(results) = 1
    /\ CompletedJudgeCalls(log) = 1
    /\ ChargesMade(log) = 1
    /\ file.data.daily_api_usage.judge_calls = 1
    /\ file.data.daily_api_usage.cost_estimate = jres.cost
    /\ jres.cost > 0
    /\ file.data.current_score = INITIAL_SCORE
    /\ file.data.history = << >>

----------------------------------------------------------------------------
(* score_text_input and the ledger *)

\* C36: score_text_input changes the score only through one violation
\* event: when score_text reports a violation it records exactly one event,
\* whose points_change is the total score_text returned and whose new_score
\* is the score the call reports as the new one, which is then the
\* current_score; for a blank text and for a text without violations
\* current_score, history and total_violations stay as they were.
C36_ScoreOnlyThroughOneEvent ==
    [][ LET s == file.data
            t == file'.data
            scored == spc = "record" /\ ret'.op = "score_text_input" /\ ret'.val.success
        IN  /\ scored =>
                  /\ out.violations # << >>
                  /\ ret'.val.violations_found
                  /\ ret'.val.score_change = out.total_points
                  /\ Len(t.history) >= 1
                  /\ IsSuffix(SubSeq(t.history, 1, Len(t.history) - 1), s.history)
                  /\ Len(t.history) = Len(s.history) + 1 \/ Len(t.history) = HistoryCap
                  /\ t.history[Len(t.history)].type = "violation"
                  /\ t.history[Len(t.history)].points_change = out.total_points
                  /\ t.history[Len(t.history)].new_score = ret'.val.new_score
                  /\ t.current_score = ret'.val.new_score
                  /\ t.current_score = s.current_score + out.total_points
                  /\ t.total_violations = s.total_violations + 1
            /\ ~scored =>
                  /\ t.current_score = s.current_score
                  /\ t.history = s.history
                  /\ t.total_violations = s.total_violations
            /\ (ret'.op = "score_text_input" /\ ret' # ret /\ ~scored) =>
                  /\ ~ret'.val.violations_found
                  /\ ret'.val.score_change = 0
                  /\ spc = "idle"
                  /\ out = NoFrame \/ out.violations = << >> ]_vars

\* C36 witness: a text with pattern violations and one lie was recorded as
\* one violation event that carries the reported new score
C36_Witness ==
    /\ ret.op = "score_text_input" /\ ret.val.violations_found
    /\ LiesFound(results) = 1
    /\ Len(file.data.history) = 1
    /\ file.data.history[1].points_change = ret.val.score_change
    /\ ret.val.score_change < PENALTIES.lie_auto
    /\ file.data.history[1].new_score = ret.val.new_score
    /\ file.data.current_score = INITIAL_SCORE + ret.val.score_change
    /\ file.data.total_violations = 1

----------------------------------------------------------------------------
(* Readers next to writers *)

\* the process runs a method that only reads
ReadOnly(p) == op[p].name \notin Mutations

\* C37: with a valid ledger in state.json, a read-only operation leaves the
\* file as it is in every interleaving with writers: no step of a process
\* that runs a read-only method changes state.json, so what completed
\* mutations recorded is still there after the reads.
C37_ReadsLeaveLedgerUnchanged ==
    [][ \A p \in Procs : (ReadOnly(p) /\ pc'[p] # pc[p]) => file' = file ]_vars

----------------------------------------------------------------------------
(* A request while the score changes *)

\* the score in the termination error handed back for the request
TerminationScore ==
    IF call.by = "wrapper" THEN call.result.body.error.message[2]
    ELSE call.result.body._termination_response.error.score

\* C38: the consequence applied to one request is consistent with a single
\* score: the level applied to the request is the level of the score logged
\* for it, and a termination error reports a score whose level is
\* session_termination, whatever another process does to the score while
\* the request is on its way.
C38_ConsequenceOfOneScore ==
    /\ (Pending /\ call.stage = "logged") =>
           call.level = LevelOf(call.by, call.score)
    /\ (call.made /\ call.result.kind = "terminated") =>
           LevelOf(call.by, TerminationScore) = "session_termination"

----------------------------------------------------------------------------
(* Verify calls of two processes and the daily budget *)

\* the cost charged for today, as state.json has it
ChargedToday == DailyUsage(file.data, today).cost_estimate

\* the most that one judge call costs
MaxJudgeCost ==
    CHOOSE c \in {o.cost : o \in JudgeOutcomes} : \A o \in JudgeOutcomes : o.cost <= c

\* this step starts a judge backend invocation, in this process or the other
JudgeStarts ==
    \/ spc = "judge" /\ Len(log') > Len(log)
    \/ other.held /\ other.stage = "judge" /\ other' # other

\* C39: with verify calls running concurrently on one ledger, the cost
\* charged for one date never exceeds the budget ceiling by more than the
\* cost of a single judge call, and once the charged cost has reached the
\* ceiling no judge backend invocation is started.
C39_BudgetHoldsAcrossCalls ==
    [][ /\ ChargedToday' <= DAILY_BUDGET + MaxJudgeCost
        /\ JudgeStarts => ChargedToday < DAILY_BUDGET ]_vars

----------------------------------------------------------------------------
(* Reward checks of the daemon and of the scheduled check on one ledger *)

\* the events i < j of history are rewards of the same tier with no
\* violation recorded between them
SameTierTwice(h, i, j) ==
    /\ i < j
    /\ h[i].type = "reward" /\ h[j].type = "reward"
    /\ h[i].points_change = h[j].points_change
    /\ \A k \in (i+1)..(j-1) : h[k].type # "violation"

\* C40: between two consecutive violations each reward tier (12 hours for
\* +20, 48 hours for +50, 168 hours for +100) is awarded at most once, over
\* any interleaving of the reward checks of the daemon loop and of the
\* scheduled check.
C40_TierAwardedOncePerStreak ==
    LET h == file.data.history
    IN  \A i, j \in 1..Len(h) : ~SameTierTwice(h, i, j)

====
